---- MODULE Spec2Model ----
(***************************************************************************)
(* Readers and serializers of modelling_earth: the MD3D readers of         *)
(* modelling_earth/io.py and the MANDYOC readers of                        *)
(* modelling_earth/io/utils.py and modelling_earth/io/grids.py, as state   *)
(* machines over the content of an output directory.                       *)
(***************************************************************************)
EXTENDS Integers, Sequences, FiniteSets, TLC

(***************************************************************************)
(* Bounds of the model.                                                    *)
(***************************************************************************)
\* largest stepMAX handed to _read_times
MaxStepMax == 3
\* largest print_step
MaxPrintStep == 2
\* largest number of grid points along an axis
MaxN == 2
\* largest number of steps of a resolved step index handed to a reader
MaxSteps == 2

VARIABLES
    entry,        \* the function that was called
    variant,      \* "md3d": modelling_earth/io.py, "mandyoc": modelling_earth/io/
    markers,      \* the steps s whose marker file Tempo_<s>.txt is in the directory
    layout,       \* the text layout of the marker files of the directory
    fieldFiles,   \* field files: [basename -> [step -> file]], see Absent, Output
    tiny,         \* where the field files of the first step hold a very small value
    rankFiles,    \* per step, the directory entries that match its rank pattern
    rowSeed,      \* decides how many rows each swarm file holds
    rowFault,     \* a row a viscosity file holds besides those of its centers
    params,       \* the parameters file
    datasets,     \* argument datasets of read_mandyoc_data
    print_step,   \* argument print_step
    max_steps,    \* argument max_steps
    shape,        \* argument shape
    quantity,     \* argument quantity
    temperatures, \* argument temperatures of save_temperature
    pc,           \* position in the running function
    step,         \* loop variable of the candidate loop of _read_times
    step_index,   \* position in steps of the running step loop (from 1)
    n_rank,       \* the rank count fixed at the first step; NoRank before
    steps,        \* the list steps
    times,        \* the list times (raw values until returned, then scaled)
    data,         \* the lists of per-step arrays a field reader builds
    result,       \* what the call returned, or NoResult
    checked,      \* marker steps tested with os.path.isfile, in order
    opened,       \* files opened for reading, in order
    error,        \* the exception that ended the call, or NoError
    todo,         \* the sub-readers an assembler has still to call, in order
    data_vars,    \* the dictionary data_vars an assembler fills
    parameters,   \* the dictionary _read_parameters returned, or NoParameters
    coordinates,  \* the tuple _build_coordinates returned, or NoCoordinates
    held,         \* the files that are open, in the order they were opened
    velocity,     \* argument velocity of save_velocity
    interfaces,   \* argument interfaces of save_interfaces
    layers_parameters, \* argument layers_parameters of save_interfaces
    region,       \* argument region of grid_coordinates
    vertices,     \* argument vertices of interface_from_vertices
    direction     \* argument direction of interface_from_vertices

\* the call and the directory: nothing writes them
callVars ==
    <<entry, variant, datasets, velocity, interfaces, layers_parameters, region,
      vertices, direction>>
diskVars == <<markers, layout, fieldFiles, tiny, rankFiles, rowSeed, rowFault, params>>
\* the arguments of the sub-readers
argVars == <<print_step, max_steps, shape, quantity, temperatures>>

\* the state of an assembler between its calls of the sub-readers
asmVars == <<todo, data_vars, parameters, coordinates>>

vars == <<callVars, diskVars, argVars, asmVars, pc, step, step_index, n_rank, steps,
          times, data, result, checked, opened, error, held>>

NoRank == -1

\* A token of a line of the parameters file: what int() and float() make of
\* it, its value if it is a number and its text if it is a word.
IntTok(n) == [kind |-> "int", n |-> n, text |-> ""]

FloatTok(n) == [kind |-> "float", n |-> n, text |-> ""]

Word(text) == [kind |-> "word", n |-> 0, text |-> text]

\* int(token) and float(token) return: ValueError otherwise
CanInt(t) == t.kind = "int"

CanFloat(t) == t.kind \in {"int", "float"}

\* the line "key value"
KeyLine(key, value) == <<Word(key), value>>

\* a parameters file: there or not, its lines but "region <value>", each a
\* sequence of tokens (none: a blank line), and the characters of the value
\* of its line "region <value>" if it has one
NoRegion == <<>>

Params(state, lines, region_) == [state |-> state, lines |-> lines, region |-> region_]

\* the parameters file of a run on a grid of n nodes per axis of shape_
SoundLines(shape_) ==
    <<[a \in 1 .. Len(shape_) |-> IntTok(shape_[a])],
      [a \in 1 .. Len(shape_) |-> FloatTok(2 * a)],
      <<>>,
      KeyLine("print_step", IntTok(MaxPrintStep)),
      KeyLine("stepMAX", IntTok(MaxPrintStep * (MaxSteps - 1)))>>

NoParameters == <<>>

NoCoordinates == <<>>

\* the functions that call the sub-readers one after the other
Assemblers == {"read_mandyoc_data", "read_md3d_data"}

\* where a sub-reader goes when it returns: back into the assembler that
\* called it, or to the caller of the model
AfterCall == IF entry \in Assemblers THEN "bind" ELSE "returned"

\* a call of a sub-reader on its own: no assembler is running
NoAssembler ==
    /\ params = Params("ok", <<>>, NoRegion)
    /\ datasets = <<>>
    /\ todo = <<>>
    /\ data_vars = <<>>
    /\ parameters = NoParameters
    /\ coordinates = NoCoordinates

\* no argument of a function other than the readers
NoVelocity == <<>>

NoInterfaces == <<>>

NoLayers == <<>>

NoVertices == <<>>

NoOtherArgs ==
    /\ velocity = NoVelocity
    /\ interfaces = NoInterfaces
    /\ layers_parameters = NoLayers
    /\ region = NoRegion
    /\ vertices = NoVertices
    /\ direction = "none"

NoResult == <<>>

NoError == [kind |-> "none", step |-> -1]

\* an exception of class kind raised while working on step s
Raise(kind, s) == [kind |-> kind, step |-> s]

(***************************************************************************)
(* Marker files Tempo_<step>.txt.                                          *)
(***************************************************************************)
TIMES_BASENAME == "Tempo_"

\* A marker file is `lines` lines "label<sep>value"; the separator holds a
\* colon or not, and white space or not.
Layouts == [lines : {1, 2}, colon : BOOLEAN, space : BOOLEAN]

\* the steps that can have a marker in the directory
MarkerSteps == 0 .. (MaxStepMax + MaxPrintStep - 1)

\* the raw time (years) written in the marker of step s
MarkerValue(s) == 1000 * (s + 1)

MarkerFile(s) == [kind |-> TIMES_BASENAME, step |-> s, rank |-> -1]

\* io.py: float(f.readline().split()[1]): the second white-space token of the
\* first line; IndexError when the line is a single token
ParseTimeMd3d(l, s) ==
    IF l.space
    THEN [ok |-> TRUE, value |-> MarkerValue(s), err |-> "none"]
    ELSE [ok |-> FALSE, value |-> 0, err |-> "IndexError"]

\* io/utils.py: np.loadtxt(delimiter=":", usecols=(1)) needs a second
\* colon-separated column on every line; a one-line file gives a 0-d array, on
\* which time.append raises AttributeError; otherwise time[0] is taken
ParseTimeMandyoc(l, s) ==
    IF ~l.colon
    THEN [ok |-> FALSE, value |-> 0, err |-> "ValueError"]
    ELSE IF l.lines = 1
    THEN [ok |-> FALSE, value |-> 0, err |-> "AttributeError"]
    ELSE [ok |-> TRUE, value |-> MarkerValue(s), err |-> "none"]

ParseTime(l, s) ==
    IF variant = "md3d" THEN ParseTimeMd3d(l, s) ELSE ParseTimeMandyoc(l, s)

\* 1e-6 * value: years to Ma, kept as a fraction
ScaleMa(v) == [num |-> v, den |-> 1000000]

\* range(0, max_steps + print_step, print_step) has a next value
InRange(s) == s < max_steps + print_step

(***************************************************************************)
(* Floating point values and their text.                                   *)
(***************************************************************************)
\* the float m * 10^e
Float(m, e) == [m |-> m, e |-> e]

Zero == Float(0, 0)

Abs(n) == IF n < 0 THEN -n ELSE n

RECURSIVE Pow10(_)
Pow10(n) == IF n <= 0 THEN 1 ELSE 10 * Pow10(n - 1)

\* the exponent of the threshold 1.0e-200
TinyExp == -200

\* (mutant) the comparison is <=
AbsBelowTiny_le(v) ==
    IF v.e >= TinyExp
    THEN v.m = 0 \/ (v.e = TinyExp /\ Abs(v.m) = 1)
    ELSE Abs(v.m) <= Pow10(TinyExp - v.e)

\* np.abs(v) < 1.0e-200
AbsBelowTiny(v) ==
    IF v.e >= TinyExp THEN v.m = 0 ELSE Abs(v.m) < Pow10(TinyExp - v.e)

\* a[np.abs(a) < 1.0e-200] = 0 on a flat array
FlushTiny(flat) ==
    [p \in 1 .. Len(flat) |-> IF AbsBelowTiny(flat[p]) THEN Zero ELSE flat[p]]

\* the text of a float: sign, digits and exponent ("%.18e")
FormatFloat(v) == [neg |-> v.m < 0, digits |-> Abs(v.m), exp |-> v.e]

\* float(token)
ParseFloat(tok) == Float(IF tok.neg THEN -tok.digits ELSE tok.digits, tok.exp)

(***************************************************************************)
(* Text files and np.loadtxt.                                              *)
(***************************************************************************)
\* a line of text that starts with the character first
TextLine(first) == [kind |-> "text", first |-> first]

\* a line holding one number
NumLine(v) == [kind |-> "num", tok |-> FormatFloat(v)]

\* a line that is empty once its comment is removed
IsComment(line, comments) == line.kind = "text" /\ line.first = comments

\* np.loadtxt(file, comments=comments, skiprows=skiprows) of a one-column
\* file: the first skiprows lines are dropped, then the comment lines; every
\* line left must be a number
LoadTxt(lines, comments, skiprows) ==
    LET rest == SubSeq(lines, skiprows + 1, Len(lines))
        rows == SelectSeq(rest, LAMBDA l : ~IsComment(l, comments))
    IN  IF \E i \in 1 .. Len(rows) : rows[i].kind # "num"
        THEN [ok |-> FALSE, values |-> <<>>]
        ELSE [ok |-> TRUE,
              values |-> [i \in 1 .. Len(rows) |-> ParseFloat(rows[i].tok)]]

(***************************************************************************)
(* Arrays.                                                                 *)
(***************************************************************************)
RECURSIVE Prod(_)
Prod(s) == IF s = <<>> THEN 1 ELSE Head(s) * Prod(Tail(s))

\* the 0-based indices of an array of shape sh
Indices(sh) ==
    {idx \in [1 .. Len(sh) -> 0 .. MaxN] : \A a \in 1 .. Len(sh) : idx[a] < sh[a]}

\* (mutant) the strides of C order: the last axis is the fastest
AxisStride_C(sh, a) == Prod(SubSeq(sh, a + 1, Len(sh)))

\* the stride (in elements) of axis a of an array of shape sh laid out in
\* Fortran order: the first axis is the fastest
AxisStride(sh, a) == Prod(SubSeq(sh, 1, a - 1))

RECURSIVE Offset(_, _, _)
\* the place in the flat data of the element at idx: the sum over the axes
\* from a on of index times stride
Offset(idx, sh, a) ==
    IF a > Len(sh) THEN 0 ELSE idx[a] * AxisStride(sh, a) + Offset(idx, sh, a + 1)

\* flat.reshape(sh, order="F"): ValueError unless the sizes agree
CanReshape(flat, sh) == Len(flat) = Prod(sh)

ReshapeF(flat, sh) ==
    [shape |-> sh,
     cells |-> [idx \in Indices(sh) |-> flat[1 + Offset(idx, sh, 1)]]]

\* flat[c::d]
Stride(flat, c, d) ==
    [q \in 1 .. ((Len(flat) - c + d - 1) \div d) |-> flat[c + (q - 1) * d + 1]]

\* np.array(list) of a list of arrays of one shape; an empty list gives the
\* empty array of shape (0,)
NpArray(list) ==
    IF Len(list) = 0
    THEN [shape |-> <<0>>, cells |-> <<>>]
    ELSE [shape |-> <<Len(list)>> \o list[1].shape,
          cells |-> [idx \in {<<t>> \o i : t \in 0 .. Len(list) - 1,
                                          i \in Indices(list[1].shape)} |->
                       list[idx[1] + 1].cells[Tail(idx)]]]

\* no entry of the directory matches a rank pattern
NoRankFiles == [s \in MarkerSteps |-> [ranks |-> {}, extra |-> 0]]

\* every viscosity file holds the rows of its centers and no other
NoRowFault == [kind |-> "none", step |-> -1, rank |-> -1, head |-> FALSE]

\* no array
NoArray == [dims |-> <<>>, shape |-> <<>>, cells |-> <<>>]

(***************************************************************************)
(* Field files <basename>_<step>.txt.                                      *)
(***************************************************************************)
SCALARS ==
    [temperature |-> "Temper", density |-> "Rho", radiogenic_heat |-> "H",
     viscosity_factor |-> "Geoq", strain |-> "strain"]

BASENAMES ==
    [temperature |-> "Temper", density |-> "Rho", radiogenic_heat |-> "H",
     viscosity_factor |-> "Geoq", strain |-> "strain", pressure |-> "Pressure",
     viscosity |-> "visc_", velocity |-> "Veloc_fut"]

\* the table a reader looks the quantity up in
NameTable == IF variant = "md3d" THEN SCALARS ELSE BASENAMES

VelocityBasename == "Veloc_fut"

FieldBasenames == {BASENAMES[q] : q \in DOMAIN BASENAMES} \ {"visc_"}

FieldFile(b, s) == [kind |-> b, step |-> s, rank |-> -1]

\* no such file in the directory
Absent == [state |-> "absent", lines |-> <<>>]

\* a file the simulator wrote: complete ("ok") or lacking its last value
\* ("short"); its lines are FieldLines
Output(state) == [state |-> state, lines |-> <<>>]

\* a file written by a serializer of this package, with its lines
Written(lines) == [state |-> "written", lines |-> lines]

NoFieldFiles == [b \in FieldBasenames |-> [s \in MarkerSteps |-> Absent]]

NoTiny == 0

\* very small values a file can hold: below the threshold, of either sign,
\* and the threshold itself, of either sign
TinyValues == <<Float(1, -201), Float(-9, -201), Float(1, -200), Float(-1, -200)>>

FileAt(b, s) ==
    IF b \in DOMAIN fieldFiles /\ s \in DOMAIN fieldFiles[b]
    THEN fieldFiles[b][s] ELSE Absent

\* the p-th value (from 1) of the field files of the t-th step (from 1): the
\* files of the first step hold the very small values at the positions that
\* end at tiny, every other value is an ordinary number of its own
ValueAt(t, p) ==
    IF t = 1 /\ p <= tiny /\ p + Len(TinyValues) > tiny
    THEN TinyValues[p + Len(TinyValues) - tiny]
    ELSE Float(100 * t + p, 0)

\* the lines of a field file of the t-th step; the simulator writes, for n
\* values, two header lines, a line starting with P, then one value per line
FieldLines(file, t, n) ==
    IF file.state = "written" THEN file.lines
    ELSE <<TextLine("T"), TextLine("T"), TextLine("P")>>
         \o [p \in 1 .. (IF file.state = "short" THEN n - 1 ELSE n) |->
               NumLine(ValueAt(t, p))]

(***************************************************************************)
(* _read_times: one action per way through the loop body.                  *)
(***************************************************************************)
\* the marker exists and parses: append and go on
_read_times_append ==
    /\ pc = "times"
    /\ InRange(step)
    /\ step \in markers
    /\ ParseTime(layout, step).ok
    /\ checked' = Append(checked, step)
    /\ opened' = Append(opened, MarkerFile(step))
    /\ steps' = Append(steps, step)
    /\ times' = Append(times, ParseTime(layout, step).value)
    /\ step' = step + print_step
    /\ UNCHANGED <<held, callVars, asmVars, diskVars, argVars, pc, step_index, n_rank, data, result, error>>

\* (mutant) a marker that does not parse is passed over: its step is kept
\* without a time
_read_times_fail_pass ==
    /\ pc = "times"
    /\ InRange(step)
    /\ step \in markers
    /\ ~ParseTime(layout, step).ok
    /\ checked' = Append(checked, step)
    /\ opened' = Append(opened, MarkerFile(step))
    /\ steps' = Append(steps, step)
    /\ step' = step + print_step
    /\ UNCHANGED <<held, callVars, asmVars, diskVars, argVars, pc, step_index, n_rank,
                   times, data, result, error>>

\* the marker exists and does not parse: the exception leaves the function
_read_times_fail ==
    /\ pc = "times"
    /\ InRange(step)
    /\ step \in markers
    /\ ~ParseTime(layout, step).ok
    /\ checked' = Append(checked, step)
    /\ opened' = Append(opened, MarkerFile(step))
    /\ error' = Raise(ParseTime(layout, step).err, step)
    /\ pc' = "failed"
    /\ UNCHANGED <<held, callVars, asmVars, diskVars, argVars, step, step_index, n_rank, steps, times,
                   data, result>>

\* the lists become arrays, the times scaled to Ma
TimesToArrays ==
    /\ times' = [i \in 1 .. Len(times) |-> ScaleMa(times[i])]
    /\ pc' = AfterCall

\* (mutant) a missing marker is skipped and the scan goes on
_read_times_break_skip ==
    /\ pc = "times"
    /\ InRange(step)
    /\ step \notin markers
    /\ checked' = Append(checked, step)
    /\ step' = step + print_step
    /\ UNCHANGED <<held, callVars, asmVars, diskVars, argVars, pc, step_index, n_rank, steps, times,
                   data, result, opened, error>>

\* the marker is missing: break
_read_times_break ==
    /\ pc = "times"
    /\ InRange(step)
    /\ step \notin markers
    /\ checked' = Append(checked, step)
    /\ TimesToArrays
    /\ UNCHANGED <<held, callVars, asmVars, diskVars, argVars, step, step_index, n_rank, steps, data,
                   result, opened, error>>

\* the range is exhausted
_read_times_end ==
    /\ pc = "times"
    /\ ~InRange(step)
    /\ TimesToArrays
    /\ UNCHANGED <<held, callVars, asmVars, diskVars, argVars, step, step_index, n_rank, steps, data,
                   result, checked, opened, error>>

_read_times ==
    \/ _read_times_append
    \/ _read_times_fail
    \/ _read_times_break
    \/ _read_times_end

(***************************************************************************)
(* Calls of _read_times(path, print_step, max_steps) on any directory.     *)
(***************************************************************************)
InitTimes ==
    /\ NoOtherArgs
    /\ entry = "_read_times"
    /\ NoAssembler
    /\ variant \in {"md3d", "mandyoc"}
    /\ markers \in SUBSET MarkerSteps
    /\ layout \in Layouts
    /\ fieldFiles = NoFieldFiles
    /\ tiny = NoTiny
    /\ rankFiles = NoRankFiles
    /\ rowSeed = 0
    /\ rowFault = NoRowFault
    /\ n_rank = NoRank
    /\ print_step \in 1 .. MaxPrintStep
    /\ max_steps \in 0 .. MaxStepMax
    /\ shape = <<>>
    /\ quantity = "none"
    /\ temperatures = NoArray
    /\ pc = "times"
    /\ step = 0
    /\ step_index = 1
    /\ steps = <<>>
    /\ times = <<>>
    /\ data = <<>>
    /\ result = NoResult
    /\ checked = <<>>
    /\ opened = <<>>
    /\ held = <<>>
    /\ error = NoError

NextTimes == _read_times

SpecTimes == InitTimes /\ [][NextTimes]_vars

(***************************************************************************)
(* time_array(path, number, step) of dataset.py: number is held in         *)
(* max_steps, step in print_step, the loop variable cont in step.          *)
(***************************************************************************)
\* What is open once a name that held the only reference to the files of
\* old lets go of them and keeps the files of kept. Python closes a file
\* when its object is destroyed: at once where objects are counted, at some
\* later collection elsewhere, so the files of old are closed or still open.
Unreferenced(old, kept) == {kept, old \o kept}

\* open(...) of the marker of cont returns: the file is open, and ft still
\* names the file of the step before
time_array_open ==
    /\ pc = "time_array"
    /\ InRange(step)
    /\ step \in markers
    /\ opened' = Append(opened, MarkerFile(step))
    /\ held' = Append(held, MarkerFile(step))
    /\ pc' = "time_array_bind"
    /\ UNCHANGED <<callVars, asmVars, diskVars, argVars, step, step_index, n_rank,
                   steps, times, data, result, checked, error>>

\* there is no marker of cont: open raises, and the frame the exception
\* carries keeps ft
time_array_open_raise ==
    /\ pc = "time_array"
    /\ InRange(step)
    /\ step \notin markers
    /\ opened' = Append(opened, MarkerFile(step))
    /\ error' = Raise("FileNotFoundError", step)
    /\ pc' = "failed"
    /\ UNCHANGED <<held, callVars, asmVars, diskVars, argVars, step, step_index,
                   n_rank, steps, times, data, result, checked>>

\* ft is bound to the new file, its first line is parsed and the time is
\* appended; nothing closes the file
time_array_read ==
    /\ pc = "time_array_bind"
    /\ ParseTimeMd3d(layout, step).ok
    /\ held' \in Unreferenced(SubSeq(held, 1, Len(held) - 1), <<held[Len(held)]>>)
    /\ times' = Append(times, ScaleMa(ParseTimeMd3d(layout, step).value))
    /\ step' = step + print_step
    /\ pc' = "time_array"
    /\ UNCHANGED <<callVars, asmVars, diskVars, argVars, step_index, n_rank, steps,
                   data, result, checked, opened, error>>

\* ft is bound to the new file and its first line does not parse: the
\* exception leaves the function with the file open
time_array_read_raise ==
    /\ pc = "time_array_bind"
    /\ ~ParseTimeMd3d(layout, step).ok
    /\ held' \in Unreferenced(SubSeq(held, 1, Len(held) - 1), <<held[Len(held)]>>)
    /\ error' = Raise(ParseTimeMd3d(layout, step).err, step)
    /\ pc' = "failed"
    /\ UNCHANGED <<callVars, asmVars, diskVars, argVars, step, step_index, n_rank,
                   steps, times, data, result, checked, opened>>

\* the range is exhausted: time is returned and the frame lets go of ft
time_array_return ==
    /\ pc = "time_array"
    /\ ~InRange(step)
    /\ held' \in Unreferenced(held, <<>>)
    /\ result' = times
    /\ pc' = "returned"
    /\ UNCHANGED <<callVars, asmVars, diskVars, argVars, step, step_index, n_rank,
                   steps, times, data, checked, opened, error>>

time_array ==
    \/ time_array_open
    \/ time_array_open_raise
    \/ time_array_read
    \/ time_array_read_raise
    \/ time_array_return

InitTimeArray ==
    /\ NoOtherArgs
    /\ entry = "time_array"
    /\ NoAssembler
    /\ variant = "md3d"
    /\ markers \in SUBSET MarkerSteps
    /\ layout \in Layouts
    /\ fieldFiles = NoFieldFiles
    /\ tiny = NoTiny
    /\ rankFiles = NoRankFiles
    /\ rowSeed = 0
    /\ rowFault = NoRowFault
    /\ n_rank = NoRank
    /\ print_step \in 1 .. MaxPrintStep
    /\ max_steps \in 0 .. MaxStepMax
    /\ shape = <<>>
    /\ quantity = "none"
    /\ temperatures = NoArray
    /\ pc = "time_array"
    /\ step = 0
    /\ step_index = 1
    /\ steps = <<>>
    /\ times = <<>>
    /\ data = <<>>
    /\ result = NoResult
    /\ checked = <<>>
    /\ opened = <<>>
    /\ held = <<>>
    /\ error = NoError

\* the readers that open marker files, each called on its own
InitHandles == InitTimes \/ InitTimeArray

NextHandles == _read_times \/ time_array

SpecHandles == InitHandles /\ [][NextHandles]_vars

(***************************************************************************)
(* _read_scalars(path, shape, steps, quantity).                            *)
(***************************************************************************)
Ok(v) == [ok |-> TRUE, err |-> "none", tried |-> TRUE, value |-> v]

\* the exception err; tried: the file was asked for before it was raised
Fail(err, tried) == [ok |-> FALSE, err |-> err, tried |-> tried, value |-> <<>>]

\* the loop body for the t-th step s: KeyError for a quantity the table lacks,
\* OSError for a missing file, ValueError for text that is no number or for a
\* size that does not fit the shape
ScalarStep(s, t) ==
    IF quantity \notin DOMAIN NameTable THEN Fail("KeyError", FALSE)
    ELSE LET file == FileAt(NameTable[quantity], s) IN
    IF file.state = "absent" THEN Fail("OSError", TRUE)
    ELSE LET loaded == LoadTxt(FieldLines(file, t, Prod(shape)), "P", 2) IN
    IF ~loaded.ok THEN Fail("ValueError", TRUE)
    ELSE LET flat == FlushTiny(loaded.values) IN
    IF ~CanReshape(flat, shape) THEN Fail("ValueError", TRUE)
    ELSE Ok(<<ReshapeF(flat, shape)>>)

\* one pass of a step loop that appends arrays[c] to the c-th list
FieldStep(outcome, b) ==
    /\ step_index <= Len(steps)
    /\ outcome.ok
    /\ opened' = Append(opened, FieldFile(b, steps[step_index]))
    /\ LET arrays == outcome.value
       IN  data' = [c \in 1 .. Len(data) |-> Append(data[c], arrays[c])]
    /\ step_index' = step_index + 1
    /\ UNCHANGED <<held, callVars, asmVars, diskVars, argVars, pc, step, n_rank, steps, times,
                   result, checked, error>>

\* (mutant) a pass that cannot read its file ends the loop, and the arrays
\* read so far are returned
FieldRaise_truncate(outcome, b) ==
    /\ step_index <= Len(steps)
    /\ ~outcome.ok
    /\ result' = [c \in 1 .. Len(data) |-> NpArray(data[c])]
    /\ pc' = "returned"
    /\ UNCHANGED <<held, callVars, asmVars, diskVars, argVars, step, step_index, n_rank, steps, times,
                   data, checked, opened, error>>

\* one pass of a step loop that raises
FieldRaise(outcome, b) ==
    /\ step_index <= Len(steps)
    /\ ~outcome.ok
    /\ opened' = IF outcome.tried
                 THEN Append(opened, FieldFile(b, steps[step_index]))
                 ELSE opened
    /\ error' = Raise(outcome.err, steps[step_index])
    /\ pc' = "failed"
    /\ UNCHANGED <<held, callVars, asmVars, diskVars, argVars, step, step_index, n_rank, steps, times,
                   data, result, checked>>

\* the end of a step loop: each list becomes an array
FieldReturn ==
    /\ step_index > Len(steps)
    /\ result' = [c \in 1 .. Len(data) |-> NpArray(data[c])]
    /\ pc' = AfterCall
    /\ UNCHANGED <<held, callVars, asmVars, diskVars, argVars, step, step_index, n_rank, steps, times,
                   data, checked, opened, error>>

_read_scalars_step ==
    /\ pc = "scalars"
    /\ FieldStep(ScalarStep(steps[step_index], step_index), BASENAMES[quantity])

_read_scalars_raise ==
    /\ pc = "scalars"
    /\ FieldRaise(ScalarStep(steps[step_index], step_index), BASENAMES[quantity])

_read_scalars_return ==
    /\ pc = "scalars"
    /\ FieldReturn

_read_scalars ==
    \/ _read_scalars_step
    \/ _read_scalars_raise
    \/ _read_scalars_return

(***************************************************************************)
(* _read_velocity(path, shape, steps).                                     *)
(***************************************************************************)
\* the number of components the reader separates: io.py always three,
\* io/grids.py len(shape)
Components == IF variant = "md3d" THEN 3 ELSE Len(shape)

\* the loop body for the t-th step s; the file holds Len(shape) components
\* per grid point
VelocityStep(s, t) ==
    LET file == FileAt(VelocityBasename, s) IN
    IF file.state = "absent" THEN Fail("OSError", TRUE)
    ELSE LET loaded == LoadTxt(FieldLines(file, t, Len(shape) * Prod(shape)), "P", 2) IN
    IF ~loaded.ok THEN Fail("ValueError", TRUE)
    ELSE LET flat == FlushTiny(loaded.values) IN
    IF \E c \in 0 .. Components - 1 : ~CanReshape(Stride(flat, c, Components), shape)
    THEN Fail("ValueError", TRUE)
    ELSE Ok([c \in 1 .. Components |-> ReshapeF(Stride(flat, c - 1, Components), shape)])

_read_velocity_step ==
    /\ pc = "velocity"
    /\ FieldStep(VelocityStep(steps[step_index], step_index), VelocityBasename)

_read_velocity_raise ==
    /\ pc = "velocity"
    /\ FieldRaise(VelocityStep(steps[step_index], step_index), VelocityBasename)

_read_velocity_return ==
    /\ pc = "velocity"
    /\ FieldReturn

_read_velocity ==
    \/ _read_velocity_step
    \/ _read_velocity_raise
    \/ _read_velocity_return

(***************************************************************************)
(* save_temperature(temperatures, path, fname).                            *)
(***************************************************************************)
\* the header handed to np.savetxt, one entry per line
HEADER == <<"T1", "T2", "T3", "T4">>

\* np.savetxt(fname, column, header=header): every header line follows the
\* comment mark "# ", then one number per line
SaveTxt(column, header) ==
    [i \in 1 .. Len(header) |-> TextLine("#")]
    \o [p \in 1 .. Len(column) |-> NumLine(column[p])]

\* the dimensions expected of an array of n dimensions; none for other n
ExpectedDims(n) ==
    IF n = 3 THEN <<"x", "y", "z">> ELSE IF n = 2 THEN <<"x", "z">> ELSE <<>>

\* the place of name in the tuple dims
DimPlace(dims, name) == CHOOSE q \in 1 .. Len(dims) : dims[q] = name

\* (mutant) the array is left in the order it stores its dimensions
Transpose_none(array, order) == array

\* array.transpose(*order): the axes of array in the order of the names
Transpose(array, order) ==
    LET sh == [a \in 1 .. Len(order) |-> array.shape[DimPlace(array.dims, order[a])]]
    IN  [dims |-> order,
         shape |-> sh,
         cells |-> [idx \in Indices(sh) |->
                      array.cells[[q \in 1 .. Len(order) |->
                                     idx[DimPlace(order, array.dims[q])]]]]]

\* (mutant) ravel in C order: the last index changes fastest
RavelStride_C(sh, a) == Prod(SubSeq(sh, a + 1, Len(sh)))

\* how far apart ravel(order="F") puts neighbours along axis a: the first
\* index changes fastest
RavelStride(sh, a) == Prod(SubSeq(sh, 1, a - 1))

RECURSIVE RavelPlace(_, _, _)
\* the place (from 0) of the element idx in the raveled array
RavelPlace(idx, sh, a) ==
    IF a > Len(sh) THEN 0
    ELSE idx[a] * RavelStride(sh, a) + RavelPlace(idx, sh, a + 1)

\* array.values.ravel(order="F")
RavelF(array) ==
    [p \in 1 .. Prod(array.shape) |->
       array.cells[CHOOSE idx \in Indices(array.shape) :
                     RavelPlace(idx, array.shape, 1) = p - 1]]

\* the checks on temperatures.dims pass
ValidTemperatures ==
    /\ Len(temperatures.dims) \in {2, 3}
    /\ \A q \in 1 .. Len(temperatures.dims) :
          \E a \in 1 .. Len(ExpectedDims(Len(temperatures.dims))) :
             temperatures.dims[q] = ExpectedDims(Len(temperatures.dims))[a]

\* the file os.path.join(path, fname) of the call: Temper_0.txt
SavedBasename == "Temper"
SavedStep == 0

\* the array is transposed, raveled and written under the header
save_temperature_write ==
    /\ pc = "save"
    /\ ValidTemperatures
    /\ LET column == RavelF(Transpose(temperatures,
                                      ExpectedDims(Len(temperatures.dims))))
       IN  fieldFiles' = [fieldFiles EXCEPT ![SavedBasename][SavedStep] =
                             Written(SaveTxt(column, HEADER))]
    /\ pc' = IF entry = "roundtrip" THEN "scalars" ELSE "returned"
    /\ UNCHANGED <<held, callVars, asmVars, markers, layout, tiny, rankFiles, rowSeed,
                   rowFault, params,
                   argVars,
                   step, step_index, n_rank, steps, times, data, result, checked,
                   opened, error>>

\* ValueError for a number of dimensions other than 2 and 3 and for a
\* dimension that is not expected
save_temperature_raise ==
    /\ pc = "save"
    /\ ~ValidTemperatures
    /\ error' = Raise("ValueError", -1)
    /\ pc' = "failed"
    /\ UNCHANGED <<held, callVars, asmVars, diskVars, argVars, step, step_index, n_rank, steps, times,
                   data, result, checked, opened>>

save_temperature == save_temperature_write \/ save_temperature_raise

(***************************************************************************)
(* Calls of _read_scalars and _read_velocity with a resolved step index,   *)
(* and of save_temperature followed by _read_scalars on the written file.  *)
(***************************************************************************)
\* the grid shapes: 2D and 3D for io/grids.py, 3D for io.py
Shapes(v) ==
    {sh \in [1 .. 3 -> 1 .. MaxN] : TRUE}
    \cup (IF v = "mandyoc" THEN {sh \in [1 .. 2 -> 1 .. MaxN] : TRUE} ELSE {})

\* a resolved step index of n steps: 0, print_step, 2 * print_step, ...
StepIndex(n, ps) == [i \in 1 .. n |-> (i - 1) * ps]

\* a directory whose files of basename b are complete for the steps of index,
\* but for the step at position bad (0: none), which is short or absent
FieldDir(b, index, bad, badKind) ==
    [c \in FieldBasenames |->
       [s \in MarkerSteps |->
          IF c # b \/ s \notin {index[i] : i \in 1 .. Len(index)} THEN Absent
          ELSE IF bad > 0 /\ s = index[bad] THEN badKind
          ELSE Output("ok")]]

\* the values a field file holds per grid point
ValuesPerPoint == IF entry = "_read_velocity" THEN Len(shape) ELSE 1

\* the tuples of dims drawn for temperatures: the orders of (x, z) and of
\* (x, y, z), a 2D array with a dimension y and a 1D array
DimsDrawn ==
    {<<"x", "z">>, <<"z", "x">>, <<"x", "y">>, <<"x">>}
    \cup {d \in [1 .. 3 -> {"x", "y", "z"}] : \A a, b \in 1 .. 3 : a # b => d[a] # d[b]}

\* the value of the temperature array at a grid point: one per point, of
\* either sign
TemperatureAt(dims, idx) ==
    LET at(name) == IF \E q \in 1 .. Len(dims) : dims[q] = name
                    THEN idx[DimPlace(dims, name)] ELSE 0
        digits == 1 + at("x") + 10 * at("y") + 100 * at("z")
    IN  Float(IF (at("x") + at("y") + at("z")) % 2 = 1 THEN -digits ELSE digits, 0)

\* a DataArray of the given dims and sizes
DataArray(dims, sh) ==
    [dims |-> dims, shape |-> sh,
     cells |-> [idx \in Indices(sh) |-> TemperatureAt(dims, idx)]]

\* the value of component c (from 1) of the velocity at a grid point
VelocityAt(c, dims, idx) == Float(TemperatureAt(dims, idx).m + 1000 * c, 0)

\* a velocity Dataset whose components store the given dims and sizes
VelocityDataset(dims, sh) ==
    LET component(c) == [dims |-> dims, shape |-> sh,
                         cells |-> [idx \in Indices(sh) |-> VelocityAt(c, dims, idx)]]
    IN  IF Len(dims) = 3
        THEN [dims |-> dims, velocity_x |-> component(1), velocity_y |-> component(2),
              velocity_z |-> component(3)]
        ELSE [dims |-> dims, velocity_x |-> component(1), velocity_z |-> component(2)]

\* np.reshape(velocity_to_save.T, (np.size(velocity_to_save))): the rows
\* taken in turn, one value of each at a time
Interleave(rows) ==
    [p \in 1 .. Len(rows) * Len(rows[1]) |->
       rows[((p - 1) % Len(rows)) + 1][((p - 1) \div Len(rows)) + 1]]

\* the flat array save_velocity hands to np.savetxt: the components raveled
\* in the order they store their dimensions, then interleaved
VelocityToSave ==
    IF Len(velocity.dims) = 3
    THEN Interleave(<<RavelF(velocity.velocity_x), RavelF(velocity.velocity_y),
                      RavelF(velocity.velocity_z)>>)
    ELSE Interleave(<<RavelF(velocity.velocity_x), RavelF(velocity.velocity_z)>>)

HEADER_VELOCITY == <<"V1", "V2", "V3", "V4">>

\* save_velocity(velocity, path, fname) on a Dataset of 2 or 3 dims
save_velocity ==
    /\ pc = "save_velocity"
    /\ fieldFiles' = [fieldFiles EXCEPT ![VelocityBasename][SavedStep] =
                          Written(SaveTxt(VelocityToSave, HEADER_VELOCITY))]
    /\ pc' = "returned"
    /\ UNCHANGED <<held, callVars, asmVars, markers, layout, tiny, rankFiles, rowSeed,
                   rowFault, params, argVars, step, step_index, n_rank, steps, times,
                   data, result, checked, opened, error>>

InitVelocity ==
    /\ entry = "save_velocity"
    /\ region = NoRegion
    /\ vertices = NoVertices
    /\ direction = "none"
    /\ interfaces = NoInterfaces
    /\ layers_parameters = NoLayers
    /\ variant = "mandyoc"
    /\ \E dims \in {d \in DimsDrawn : Len(d) > 1 /\ d # <<"x", "y">>},
          sh \in [1 .. 3 -> 1 .. MaxN] :
         velocity = VelocityDataset(dims, SubSeq(sh, 1, Len(dims)))
    /\ shape = <<>>
    /\ quantity = "velocity"
    /\ temperatures = NoArray
    /\ print_step = MaxPrintStep
    /\ steps = <<>>
    /\ fieldFiles = NoFieldFiles
    /\ tiny = NoTiny
    /\ pc = "save_velocity"

InitFiles ==
    /\ NoOtherArgs
    /\ entry \in {"_read_scalars", "_read_velocity"}
    /\ variant \in {"md3d", "mandyoc"}
    /\ shape \in Shapes(variant)
    /\ quantity \in (IF entry = "_read_scalars" THEN {"temperature", "pressure"}
                     ELSE {"velocity"})
    /\ temperatures = NoArray
    /\ print_step = MaxPrintStep
    /\ \E n \in 0 .. MaxSteps :
         /\ steps = StepIndex(n, print_step)
         /\ \E bad \in 0 .. n, badKind \in {Absent, Output("short")} :
              fieldFiles = FieldDir(BASENAMES[quantity], steps, bad, badKind)
    /\ tiny \in 0 .. (ValuesPerPoint * Prod(shape) + Len(TinyValues) - 1)
    /\ pc = IF entry = "_read_scalars" THEN "scalars" ELSE "velocity"

InitRoundTrip ==
    /\ NoOtherArgs
    /\ entry = "roundtrip"
    /\ variant \in {"md3d", "mandyoc"}
    /\ \E dims \in DimsDrawn, sh \in [1 .. 3 -> 1 .. MaxN] :
         temperatures = DataArray(dims, SubSeq(sh, 1, Len(dims)))
    /\ shape = IF ValidTemperatures
               THEN Transpose(temperatures, ExpectedDims(Len(temperatures.dims))).shape
               ELSE temperatures.shape
    /\ quantity = "temperature"
    /\ print_step = MaxPrintStep
    /\ steps = <<SavedStep>>
    /\ fieldFiles = NoFieldFiles
    /\ tiny = NoTiny
    /\ pc = "save"

InitFields ==
    /\ (InitFiles \/ InitRoundTrip \/ InitVelocity)
    /\ NoAssembler
    /\ rankFiles = NoRankFiles
    /\ rowSeed = 0
    /\ rowFault = NoRowFault
    /\ n_rank = NoRank
    /\ max_steps = MaxStepMax
    /\ markers = {steps[i] : i \in 1 .. Len(steps)}
    /\ times = [i \in 1 .. Len(steps) |-> ScaleMa(MarkerValue(steps[i]))]
    /\ layout = [lines |-> 2, colon |-> TRUE, space |-> TRUE]
    /\ step = 0
    /\ step_index = 1
    /\ data = IF entry = "_read_velocity" THEN [c \in 1 .. Components |-> <<>>]
              ELSE IF entry = "save_velocity" THEN <<>>
              ELSE <<(<<>>)>>
    /\ result = NoResult
    /\ checked = <<>>
    /\ opened = <<>>
    /\ held = <<>>
    /\ error = NoError

NextFields == _read_scalars \/ _read_velocity \/ save_temperature \/ save_velocity

SpecFields == InitFields /\ [][NextFields]_vars

(***************************************************************************)
(* Claims on _read_scalars and _read_velocity.                             *)
(***************************************************************************)
\* the 0-based place in the file of the grid point idx, first axis fastest:
\* i + nx * k in 2D, i + nx * (j + ny * k) in 3D
ColumnMajor(idx) ==
    IF Len(shape) = 2
    THEN idx[1] + shape[1] * idx[2]
    ELSE idx[1] + shape[1] * (idx[2] + shape[2] * idx[3])

\* the values of the files whose magnitude is below 1e-200
BelowThreshold == {Float(1, -201), Float(-9, -201)}

\* what a reader has to store for the file value v
Stored(v) == IF v \in BelowThreshold THEN Zero ELSE v

\* the file of the running reader for the i-th step is missing
Missing(i) == FileAt(BASENAMES[quantity], steps[i]).state = "absent"

\* C3: a field reader never returns when the file of a step of the index is
\* absent: the loop does not pass that step, the exception raised there names
\* it, and what is returned has one time slice per step of the index.
C3_MissingFileFails ==
    entry \in {"_read_scalars", "_read_velocity"} =>
        /\ pc = "returned" =>
              /\ \A i \in 1 .. Len(steps) : ~Missing(i)
              /\ \A c \in 1 .. Len(result) : result[c].shape[1] = Len(steps)
        /\ \A i \in 1 .. Len(steps) : Missing(i) => step_index <= i
        /\ \A i \in 1 .. Len(steps) :
              (Missing(i) /\ pc = "failed" /\ step_index = i) =>
                  /\ error.step = steps[i]
                  /\ error.kind \in {"OSError", "KeyError"}
        /\ result # NoResult => pc = "returned"

\* C3 witness: the file of a later step is absent and the reader has failed
\* there, after it read the files before it
C3_Witness ==
    /\ entry \in {"_read_scalars", "_read_velocity"}
    /\ pc = "failed"
    /\ error.kind = "OSError"
    /\ step_index > 1
    /\ Missing(step_index)

\* C7: _read_scalars returns one array of shape (n_steps, *shape) that holds,
\* at [t, i, k] resp. [t, i, j, k], the value at column-major place
\* i + nx * k resp. i + nx * (j + ny * k) of the file of the t-th step.
C7_ScalarLayout ==
    (entry = "_read_scalars" /\ pc = "returned") =>
        /\ Len(result) = 1
        /\ result[1].shape = <<Len(steps)>> \o shape
        /\ \A t \in 1 .. Len(steps), idx \in Indices(shape) :
              result[1].cells[<<t - 1>> \o idx] = Stored(ValueAt(t, ColumnMajor(idx) + 1))

\* C8: _read_velocity returns d = len(shape) arrays of shape
\* (n_steps, *shape), the c-th of which holds at the grid point of
\* column-major place p the file value at place d * p + c.
C8_VelocityLayout ==
    (entry = "_read_velocity" /\ pc = "returned") =>
        /\ Len(result) = Len(shape)
        /\ \A c \in 1 .. Len(result) :
              /\ result[c].shape = <<Len(steps)>> \o shape
              /\ \A t \in 1 .. Len(steps), idx \in Indices(shape) :
                    result[c].cells[<<t - 1>> \o idx] =
                        Stored(ValueAt(t, Len(shape) * ColumnMajor(idx) + c))

\* C9: in what a field reader returns, every file value below 1e-200 in
\* magnitude is stored as 0 and every other value, the threshold included, is
\* stored as it is, for every component and every grid point.
C9_FlushTiny ==
    pc = "returned" =>
        \A c \in 1 .. Len(result), t \in 1 .. Len(steps), idx \in Indices(shape) :
            LET v == ValueAt(t, Len(result) * ColumnMajor(idx) + c)
                stored == result[c].cells[<<t - 1>> \o idx]
            IN  /\ v \in BelowThreshold => stored = Zero
                /\ v \notin BelowThreshold => stored = v

\* C9 witness: a returned velocity whose second component holds a flushed
\* value and a value of threshold magnitude
C9_Witness ==
    /\ entry = "_read_velocity"
    /\ pc = "returned"
    /\ Len(steps) >= 1
    /\ \E idx \in Indices(shape) :
          /\ ValueAt(1, Len(result) * ColumnMajor(idx) + 2) \in BelowThreshold
          /\ result[2].cells[<<0>> \o idx] = Zero
    /\ \E c \in 1 .. Len(result), idx \in Indices(shape) :
          result[c].cells[<<0>> \o idx] = Float(-1, -200)

\* the file save_temperature wrote
SavedFile == FileAt(SavedBasename, SavedStep)

\* C10 (as claimed): the array save_temperature wrote, read back by
\* _read_scalars (skip two lines, ignore lines starting with P, reshape
\* column-major), is the original array.
C10_RoundTrip ==
    (entry = "roundtrip" /\ ValidTemperatures /\ pc \in {"returned", "failed"}) =>
        /\ pc = "returned"
        /\ \A idx \in Indices(shape) :
              result[1].cells[<<0>> \o idx] =
                  TemperatureAt(ExpectedDims(Len(shape)), idx)

\* C10 (amended): the file save_temperature writes is four header lines that
\* start with "#" and then one value per line, the value of the grid point idx
\* at column-major place; _read_scalars, which skips two lines and ignores the
\* lines starting with P, fails on it with ValueError and returns nothing;
\* the lines below the header, read as numbers, are the original array in
\* column-major order, exactly.
C10_RoundTripBelowHeader ==
    (entry = "roundtrip" /\ SavedFile.state = "written") =>
        LET lines == SavedFile.lines
            column == LoadTxt(lines, "#", 0)
        IN  /\ Len(lines) = Len(HEADER) + Prod(shape)
            /\ \A i \in 1 .. Len(HEADER) : lines[i] = TextLine("#")
            /\ column.ok
            /\ Len(column.values) = Prod(shape)
            /\ \A idx \in Indices(shape) :
                  column.values[ColumnMajor(idx) + 1] =
                      TemperatureAt(ExpectedDims(Len(shape)), idx)
            /\ pc # "scalars" =>
                  /\ pc = "failed"
                  /\ error = Raise("ValueError", SavedStep)
                  /\ result = NoResult

\* C10 witness: a 3D array stored as (z, y, x) was written and the reader
\* has failed on the file
C10_Witness ==
    /\ entry = "roundtrip"
    /\ temperatures.dims = <<"z", "y", "x">>
    /\ Prod(shape) >= 4
    /\ SavedFile.state = "written"
    /\ pc = "failed"

\* C21: save_temperature, given an array whose dimension names are (x, z)
\* or (x, y, z) in any order, writes below the header the value of every
\* grid point at its column-major place (x index fastest, then y, then z),
\* whatever the order the array stores its dimensions in; given an array of
\* another number of dimensions, or with a dimension name that is not
\* expected, it raises ValueError and writes no file.
C21_ColumnOrder ==
    (entry = "roundtrip" /\ pc # "save") =>
        IF ValidTemperatures
        THEN /\ SavedFile.state = "written"
             /\ LET expected == ExpectedDims(Len(temperatures.dims))
                    sizes == [a \in 1 .. Len(expected) |->
                                temperatures.shape[DimPlace(temperatures.dims, expected[a])]]
                    values == SubSeq(SavedFile.lines, Len(HEADER) + 1, Len(SavedFile.lines))
                IN  /\ Len(values) = Prod(sizes)
                    /\ \A idx \in Indices(sizes) :
                          values[1 + RavelPlace(idx, sizes, 1)] =
                              NumLine(temperatures.cells[
                                  [q \in 1 .. Len(expected) |->
                                     idx[DimPlace(expected, temperatures.dims[q])]]])
        ELSE /\ pc = "failed"
             /\ error = Raise("ValueError", -1)
             /\ \A b \in FieldBasenames, s \in MarkerSteps : FileAt(b, s) = Absent

\* C21 witness: a 3D array stored as (y, z, x) with more than one value
\* along every axis has been written
C21_Witness ==
    /\ entry = "roundtrip"
    /\ temperatures.dims = <<"y", "z", "x">>
    /\ \A a \in 1 .. 3 : temperatures.shape[a] > 1
    /\ SavedFile.state = "written"

\* C22: the flat sequence save_velocity writes for a 2D or 3D velocity
\* dataset holds at position d * p + c (d: the number of spatial dimensions)
\* the component c, in the order (x, z) resp. (x, y, z), of the grid point
\* whose column-major position (x index fastest) is p, so that the c-th
\* strided slice of it, reshaped column-major, is the c-th component.
C22_Interleaved ==
    (entry = "save_velocity" /\ pc = "returned") =>
        LET expected == ExpectedDims(Len(velocity.dims))
            d == Len(expected)
            components == IF d = 3
                          THEN <<velocity.velocity_x, velocity.velocity_y, velocity.velocity_z>>
                          ELSE <<velocity.velocity_x, velocity.velocity_z>>
            sizes == [a \in 1 .. d |->
                        components[1].shape[DimPlace(velocity.dims, expected[a])]]
            lines == FileAt(VelocityBasename, SavedStep).lines
            values == SubSeq(lines, Len(HEADER_VELOCITY) + 1, Len(lines))
            at(c, idx) == NumLine(components[c].cells[
                              [q \in 1 .. d |-> idx[DimPlace(expected, velocity.dims[q])]]])
        IN  /\ Len(values) = d * Prod(sizes)
            /\ \A c \in 1 .. d, idx \in Indices(sizes) :
                  /\ values[d * RavelPlace(idx, sizes, 1) + c] = at(c, idx)
                  /\ ReshapeF(Stride(values, c - 1, d), sizes).cells[idx] = at(c, idx)

(***************************************************************************)
(* Claims on _read_times.                                                  *)
(***************************************************************************)
\* the values of range(0, max_steps + print_step, print_step)
Candidates == {s \in 0 .. (max_steps + print_step - 1) : s % print_step = 0}

\* the candidates up to which no marker is missing
GapFreePrefix == {c \in Candidates : \A d \in Candidates : d <= c => d \in markers}

\* the candidates that follow a missing marker
AfterGap == {c \in Candidates : \E d \in Candidates : d < c /\ d \notin markers}

Elements(seq) == {seq[i] : i \in 1 .. Len(seq)}

Ascending(seq) == \A i, j \in 1 .. Len(seq) : i < j => seq[i] < seq[j]

\* C1: when _read_times returns, steps is the longest gap-free prefix of the
\* candidates whose markers exist, in ascending order; a missing marker never
\* raises; and no marker that follows the first missing one is tested or opened.
C1_StopsAtFirstGap ==
    /\ pc = "returned" =>
          /\ Elements(steps) = GapFreePrefix
          /\ Ascending(steps)
          /\ Len(steps) = Cardinality(GapFreePrefix)
          /\ error = NoError
    /\ error # NoError => error.step \in markers
    /\ Elements(checked) \cap AfterGap = {}
    /\ \A i \in 1 .. Len(opened) : opened[i].step \notin AfterGap

\* C1 witness: a returned scan that left an existing marker behind a gap
C1_Witness ==
    /\ pc = "returned"
    /\ Len(steps) >= 2
    /\ AfterGap \cap markers # {}

\* C11: when _read_times returns, steps and times have one length, steps
\* starts at 0 unless it is empty, and each step is the one before it plus
\* print_step.
C11_StepsEvenlySpaced ==
    (entry = "_read_times" /\ pc = "returned") =>
        /\ Len(steps) = Len(times)
        /\ Len(steps) > 0 => steps[1] = 0
        /\ \A i \in 1 .. Len(steps) - 1 : steps[i + 1] - steps[i] = print_step

\* C11 witness: a scan with a print_step above 1 has returned two steps or
\* more
C11_Witness ==
    /\ entry = "_read_times"
    /\ pc = "returned"
    /\ print_step > 1
    /\ Len(steps) >= 2
    /\ Len(times) >= 2

\* C12: no candidate above max_steps is tested, and no returned step is
\* above max_steps.
C12_WithinStepMax ==
    entry = "_read_times" =>
        /\ \A i \in 1 .. Len(checked) : checked[i] <= max_steps
        /\ pc = "returned" => \A i \in 1 .. Len(steps) : steps[i] <= max_steps

\* the marker of step s follows one of the two layouts: (a) the value is the
\* second token of the first line, or (b) the lines are label:value
Accepted(l) == l.space \/ l.colon

\* C13: a marker in one of the two layouts never makes _read_times fail, and
\* the time recorded for a step is 1e-6 times the value of its marker.
C13_BothLayouts ==
    entry = "_read_times" =>
        /\ (pc = "failed" /\ error.step \in markers) => ~Accepted(layout)
        /\ pc = "returned" =>
              \A i \in 1 .. Len(times) : times[i] = ScaleMa(MarkerValue(steps[i]))


(***************************************************************************)
(* Rank files: the simulator writes, per step, one file per MPI rank.      *)
(* rankFiles[s].ranks are the ranks r whose file visc_<s>_<r>.txt resp.    *)
(* step_<s>-rank<r>.txt exists, rankFiles[s].extra counts the other        *)
(* entries of the directory whose name holds visc_<s>_ resp. step_<s>-.    *)
(***************************************************************************)
MaxRanks == 2

MaxRows == 2

Ranks == 0 .. (MaxRanks - 1)

RankFile(b, s, rank) == [kind |-> b, step |-> s, rank |-> rank]

\* (mutant) only the files named after a rank are counted
ListCount_named(s) == Cardinality(rankFiles[s].ranks)

\* len(step_files): the entries of the listing that hold the pattern of step s
ListCount(s) == Cardinality(rankFiles[s].ranks) + rankFiles[s].extra

\* the message of the ValueError of the rank check
InvalidRanks == "ValueError: Invalid number of ranks"

\* (mutant) only a step with fewer entries than the first fails the check
RankCheck_fewer(count) == step_index > 1 /\ count < n_rank

\* the check of a step's entry count: not made at the first step
RankCheck(count) == step_index > 1 /\ count # n_rank

\* n_rank after the check of a step
FixRanks(count) == IF step_index = 1 THEN count ELSE n_rank

\* what reading the rank files came to; files: the files asked for, in order
RanksOk(v) == [ok |-> TRUE, err |-> "none", files |-> <<>>, value |-> v]

RanksFail(err) == [ok |-> FALSE, err |-> err, files |-> <<>>, value |-> <<>>]

Asked(file, rest) == [rest EXCEPT !.files = <<file>> \o @]

\* the check of a step fails: ValueError, no rank file is asked for
RankMismatch ==
    /\ step_index <= Len(steps)
    /\ RankCheck(ListCount(steps[step_index]))
    /\ error' = Raise(InvalidRanks, steps[step_index])
    /\ pc' = "failed"
    /\ UNCHANGED <<held, callVars, asmVars, diskVars, argVars, step, step_index, n_rank, steps,
                   times, data, result, checked, opened>>

\* the check of a step passes and its rank files are read
RankStep(outcome) ==
    /\ step_index <= Len(steps)
    /\ ~RankCheck(ListCount(steps[step_index]))
    /\ outcome.ok
    /\ n_rank' = FixRanks(ListCount(steps[step_index]))
    /\ opened' = opened \o outcome.files
    /\ data' = outcome.value
    /\ step_index' = step_index + 1
    /\ UNCHANGED <<held, callVars, asmVars, diskVars, argVars, pc, step, steps, times, result,
                   checked, error>>

\* the check of a step passes and reading one of its rank files raises
RankRaise(outcome) ==
    /\ step_index <= Len(steps)
    /\ ~RankCheck(ListCount(steps[step_index]))
    /\ ~outcome.ok
    /\ n_rank' = FixRanks(ListCount(steps[step_index]))
    /\ opened' = opened \o outcome.files
    /\ error' = Raise(outcome.err, steps[step_index])
    /\ pc' = "failed"
    /\ UNCHANGED <<held, callVars, asmVars, diskVars, argVars, step, step_index, steps, times,
                   data, result, checked>>


(***************************************************************************)
(* read_md3d_swarm(path) and _read_md3d_single_swarm(path, step, time,     *)
(* n_rank), from the resolved steps and times on.                          *)
(***************************************************************************)
SWARM_BASENAME == "step_"

\* the rows a swarm file holds: at least one
SwarmRowCount(s, rank) == 1 + ((rowSeed + s + rank) % MaxRows)

\* row i of the swarm file of step s and rank: x, y, z, cc0 and further
\* columns. A particle on the border of two ranks is written by both: the
\* first row of every file of a step is the same.
SwarmRow(s, rank, i) ==
    IF i = 1
    THEN <<Float(10 * s, 0), Zero, Zero, Float(7, 0), Float(99, 0), Float(98, 0)>>
    ELSE <<Float(10 * s + i, 0), Float(rank, 0), Float(i, 0),
           Float(10 * rank + i, 0), Float(99, 0), Float(98, 0)>>

SwarmLines(s, rank) == [i \in 1 .. SwarmRowCount(s, rank) |-> SwarmRow(s, rank, i)]

\* np.loadtxt(..., usecols=(0, 1, 2, 3)): the first four columns of each row
UseCols(lines) ==
    [i \in 1 .. Len(lines) |->
       [x |-> lines[i][1], y |-> lines[i][2], z |-> lines[i][3], cc0 |-> lines[i][4]]]

\* (mutant) the rows of the rank come before the rows read so far
Hstack_prepend(a, b) == b \o a

\* np.hstack((a, b)) on the columns
Hstack(a, b) == a \o b

RECURSIVE SingleSwarmRanks(_, _, _, _)
\* the loop over range(n_rank) from rank_i on; OSError for a missing file
SingleSwarmRanks(s, rank_i, n, rows) ==
    IF rank_i >= n THEN RanksOk(rows)
    ELSE LET file == RankFile(SWARM_BASENAME, s, rank_i) IN
    IF rank_i \notin rankFiles[s].ranks THEN Asked(file, RanksFail("OSError"))
    ELSE Asked(file, SingleSwarmRanks(s, rank_i + 1, n,
                                      Hstack(rows, UseCols(SwarmLines(s, rank_i)))))

\* the DataFrame of a step: one row per particle, the index is the step and
\* the time is the same on every row
DataFrame(rows, s, time) ==
    [i \in 1 .. Len(rows) |->
       [index |-> s, x |-> rows[i].x, y |-> rows[i].y, z |-> rows[i].z,
        cc0 |-> rows[i].cc0, time |-> time]]

_read_md3d_single_swarm(s, time, n) ==
    LET read == SingleSwarmRanks(s, 0, n, <<>>)
    IN  IF read.ok THEN [read EXCEPT !.value = DataFrame(read.value, s, time)]
        ELSE read

\* the body of the loop of read_md3d_swarm once the check has passed
SwarmStep ==
    LET s == steps[step_index]
        df == _read_md3d_single_swarm(s, times[step_index], FixRanks(ListCount(s)))
    IN  IF df.ok THEN [df EXCEPT !.value = Append(data, df.value)] ELSE df

RECURSIVE Concat(_)
\* pd.concat(dataframes) of a list that is not empty
Concat(dataframes) ==
    IF dataframes = <<>> THEN <<>>
    ELSE Head(dataframes) \o Concat(Tail(dataframes))

read_md3d_swarm_mismatch ==
    /\ entry = "read_md3d_swarm" /\ pc = "swarm"
    /\ RankMismatch

read_md3d_swarm_step ==
    /\ entry = "read_md3d_swarm" /\ pc = "swarm"
    /\ step_index <= Len(steps)
    /\ RankStep(SwarmStep)

read_md3d_swarm_raise ==
    /\ entry = "read_md3d_swarm" /\ pc = "swarm"
    /\ step_index <= Len(steps)
    /\ RankRaise(SwarmStep)

\* pd.concat of the frames of all steps
read_md3d_swarm_return ==
    /\ entry = "read_md3d_swarm" /\ pc = "swarm"
    /\ step_index > Len(steps)
    /\ Len(data) > 0
    /\ result' = Concat(data)
    /\ pc' = "returned"
    /\ UNCHANGED <<held, callVars, asmVars, diskVars, argVars, step, step_index, n_rank, steps,
                   times, data, checked, opened, error>>

\* pd.concat of an empty list: ValueError (no objects to concatenate)
read_md3d_swarm_empty ==
    /\ entry = "read_md3d_swarm" /\ pc = "swarm"
    /\ step_index > Len(steps)
    /\ Len(data) = 0
    /\ error' = Raise("ValueError", -1)
    /\ pc' = "failed"
    /\ UNCHANGED <<held, callVars, asmVars, diskVars, argVars, step, step_index, n_rank, steps,
                   times, data, result, checked, opened>>

read_md3d_swarm ==
    \/ read_md3d_swarm_mismatch
    \/ read_md3d_swarm_step
    \/ read_md3d_swarm_raise
    \/ read_md3d_swarm_return
    \/ read_md3d_swarm_empty


(***************************************************************************)
(* _read_viscosity(path, steps, shape) of io/grids.py and                  *)
(* _read_viscosity(path, steps, parameters) of io.py.                      *)
(***************************************************************************)
VISCOSITY_BASENAME == "visc_"

\* (mutant) one center per node
shape_centers_nodes == shape

\* the number of finite element centers per axis: the nodes minus one
shape_centers == [a \in 1 .. Len(shape) |-> shape[a] - 1]

\* np.zeros((steps.size, *shape_centers)): cells by <<t>> \o idx, t from 0
Zeros(n, sh) ==
    [shape |-> <<n>> \o sh,
     cells |-> [idx \in {<<t>> \o i : t \in 0 .. n - 1, i \in Indices(sh)} |-> Zero]]

\* the centers in the order the simulator numbers them: first axis fastest
CenterPlace(idx, sh) == Offset(idx, sh, 1)

CenterAt(p, sh) == CHOOSE idx \in Indices(sh) : CenterPlace(idx, sh) = p

\* the centers a rank owns: the simulator deals them to MaxRanks ranks
Owned(rank, sh) == {p \in 0 .. Prod(sh) - 1 : p % MaxRanks = rank}

RECURSIVE Sorted(_)
Sorted(set) ==
    IF set = {} THEN <<>>
    ELSE LET least == CHOOSE p \in set : \A q \in set : p <= q
         IN  <<least>> \o Sorted(set \ {least})

\* the viscosity the simulator writes for center p at step s: never 0
ViscosityAt(s, p) == Float(1 + p + 100 * s, 0)

\* the lines of the viscosity file of step s and rank: the indices of a
\* center, written as floats, then its viscosity
CenterLines(s, rank, sh) ==
    LET places == Sorted(Owned(rank, sh))
    IN  [q \in 1 .. Len(places) |->
           [a \in 1 .. Len(sh) + 1 |->
              IF a <= Len(sh) THEN Float(CenterAt(places[q], sh)[a], 0)
              ELSE ViscosityAt(s, places[q])]]

\* the first index of the row of rowFault: one below 0 ("negative"), the
\* size of the axis ("large"), below minus the size ("below") or, as in the
\* row of the first center, 0 ("twice"); its other indices are 0
FaultIndex(kind, n) ==
    IF kind = "negative" THEN -1
    ELSE IF kind = "large" THEN n
    ELSE IF kind = "below" THEN -n - 1
    ELSE 0

\* a viscosity no center has
FaultViscosity == Float(5, 7)

FaultLine(kind, sh) ==
    [a \in 1 .. Len(sh) + 1 |->
       IF a = 1 THEN Float(FaultIndex(kind, sh[1]), 0)
       ELSE IF a <= Len(sh) THEN Zero
       ELSE FaultViscosity]

\* the lines of the viscosity file of step s and rank: those of its centers
\* and, in the file rowFault names, its row before or after them
ViscosityLines(s, rank, sh) ==
    IF rowFault.kind = "none" \/ rowFault.step # s \/ rowFault.rank # rank
    THEN CenterLines(s, rank, sh)
    ELSE IF rowFault.head
    THEN <<FaultLine(rowFault.kind, sh)>> \o CenterLines(s, rank, sh)
    ELSE CenterLines(s, rank, sh) \o <<FaultLine(rowFault.kind, sh)>>

\* indices.astype(int) of floats without fraction
AsType_int(v) == v.m * Pow10(v.e)

\* an index of numpy along an axis of size n: negative ones count from the end
InBounds(i, n) == -n <= i /\ i < n

Wrap(i, n) == IF i < 0 THEN i + n ELSE i

RECURSIVE Scatter_first(_, _, _, _)
\* (mutant) a cell that holds a value already keeps it
Scatter_first(viscosity, t, lines, q) ==
    IF q > Len(lines) THEN RanksOk(viscosity)
    ELSE LET sh == Tail(viscosity.shape)
             at == [a \in 1 .. Len(sh) |-> AsType_int(lines[q][a])]
         IN  IF \E a \in 1 .. Len(sh) : ~InBounds(at[a], sh[a])
             THEN RanksFail("IndexError")
             ELSE LET idx == <<t>> \o [a \in 1 .. Len(sh) |-> Wrap(at[a], sh[a])]
                      put == IF viscosity.cells[idx] # Zero THEN viscosity
                             ELSE [viscosity EXCEPT !.cells[idx] = lines[q][Len(sh) + 1]]
                  IN  Scatter_first(put, t, lines, q + 1)

RECURSIVE Scatter(_, _, _, _)
\* viscosity[step_index, i, k] = visc resp. viscosity[step_index, i, j, k] =
\* visc, row by row from row q on; IndexError for an index out of bounds
Scatter(viscosity, t, lines, q) ==
    IF q > Len(lines) THEN RanksOk(viscosity)
    ELSE LET sh == Tail(viscosity.shape)
             at == [a \in 1 .. Len(sh) |-> AsType_int(lines[q][a])]
         IN  IF \E a \in 1 .. Len(sh) : ~InBounds(at[a], sh[a])
             THEN RanksFail("IndexError")
             ELSE LET idx == <<t>> \o [a \in 1 .. Len(sh) |-> Wrap(at[a], sh[a])]
                      put == [viscosity EXCEPT !.cells[idx] = lines[q][Len(sh) + 1]]
                  IN  Scatter(put, t, lines, q + 1)

RECURSIVE ViscosityRanks(_, _, _, _, _)
\* the loop over range(n_rank) from rank on; OSError for a missing file,
\* ValueError for a file without rows (nothing to unpack)
ViscosityRanks(s, t, rank, n, viscosity) ==
    IF rank >= n THEN RanksOk(viscosity)
    ELSE LET file == RankFile(VISCOSITY_BASENAME, s, rank) IN
    IF rank \notin rankFiles[s].ranks THEN Asked(file, RanksFail("OSError"))
    ELSE LET lines == ViscosityLines(s, rank, Tail(viscosity.shape))
             put == Scatter(viscosity, t, lines, 1)
         IN  IF Len(lines) = 0 THEN Asked(file, RanksFail("ValueError"))
             ELSE IF ~put.ok THEN Asked(file, put)
             ELSE Asked(file, ViscosityRanks(s, t, rank + 1, n, put.value))

\* the body of the loop of _read_viscosity once the check has passed
ViscosityStep ==
    LET s == steps[step_index]
    IN  ViscosityRanks(s, step_index - 1, 0, FixRanks(ListCount(s)), data)

_read_viscosity_mismatch ==
    /\ pc = "viscosity"
    /\ RankMismatch

_read_viscosity_step ==
    /\ pc = "viscosity"
    /\ step_index <= Len(steps)
    /\ RankStep(ViscosityStep)

_read_viscosity_raise ==
    /\ pc = "viscosity"
    /\ step_index <= Len(steps)
    /\ RankRaise(ViscosityStep)

_read_viscosity_return ==
    /\ pc = "viscosity"
    /\ step_index > Len(steps)
    /\ result' = <<data>>
    /\ pc' = AfterCall
    /\ UNCHANGED <<held, callVars, asmVars, diskVars, argVars, step, step_index, n_rank, steps,
                   times, data, checked, opened, error>>

_read_viscosity ==
    \/ _read_viscosity_mismatch
    \/ _read_viscosity_step
    \/ _read_viscosity_raise
    \/ _read_viscosity_return

(***************************************************************************)
(* The rank readers on the directories of a run: every step of the index   *)
(* has rank files, some of them possibly lost, and possibly one more entry *)
(* whose name holds the pattern of the step.                               *)
(***************************************************************************)
\* every step of index has the files of all ranks and no other entry
AllRanks(index) ==
    [s \in MarkerSteps |->
       IF s \in {index[i] : i \in 1 .. Len(index)}
       THEN [ranks |-> Ranks, extra |-> 0] ELSE NoRankFiles[s]]

\* one more row in one file of one step of index
RowFaults(index) ==
    [kind : {"negative", "large", "below", "twice"},
     step : {index[i] : i \in 1 .. Len(index)},
     rank : Ranks,
     head : BOOLEAN]

RankDirs(index) ==
    LET indexed == {index[i] : i \in 1 .. Len(index)}
    IN  {[s \in MarkerSteps |-> IF s \in indexed THEN d[s] ELSE NoRankFiles[s]] :
            d \in [indexed -> [ranks : SUBSET Ranks, extra : 0 .. 1]]}

InitRanks ==
    /\ NoOtherArgs
    /\ entry \in {"_read_viscosity", "read_md3d_swarm"}
    /\ NoAssembler
    /\ variant \in (IF entry = "read_md3d_swarm" THEN {"md3d"} ELSE {"md3d", "mandyoc"})
    /\ \E d \in (IF variant = "mandyoc" THEN {2, 3} ELSE {3}) :
         shape = [a \in 1 .. d |-> 3]
    /\ quantity = IF entry = "_read_viscosity" THEN "viscosity" ELSE "none"
    /\ temperatures = NoArray
    /\ print_step = MaxPrintStep
    /\ max_steps = MaxStepMax
    /\ \E n \in 0 .. MaxSteps : steps = StepIndex(n, print_step)
    /\ markers = {steps[i] : i \in 1 .. Len(steps)}
    /\ times = [i \in 1 .. Len(steps) |-> ScaleMa(MarkerValue(steps[i]))]
    /\ layout = [lines |-> 2, colon |-> TRUE, space |-> TRUE]
    /\ fieldFiles = NoFieldFiles
    /\ tiny = NoTiny
    /\ rankFiles \in RankDirs(steps)
    /\ rowSeed \in (IF entry = "read_md3d_swarm" THEN 0 .. (MaxRows - 1) ELSE {0})
    /\ rowFault \in (IF entry = "_read_viscosity" /\ Len(steps) > 0
                           /\ rankFiles = AllRanks(steps)
                     THEN {NoRowFault} \cup RowFaults(steps) ELSE {NoRowFault})
    /\ n_rank = NoRank
    /\ pc = IF entry = "_read_viscosity" THEN "viscosity" ELSE "swarm"
    /\ step = 0
    /\ step_index = 1
    /\ data = IF entry = "_read_viscosity" THEN Zeros(Len(steps), shape_centers)
              ELSE <<>>
    /\ result = NoResult
    /\ checked = <<>>
    /\ opened = <<>>
    /\ held = <<>>
    /\ error = NoError

NextRanks == _read_viscosity \/ read_md3d_swarm

SpecRanks == InitRanks /\ [][NextRanks]_vars


(***************************************************************************)
(* Claims on the rank readers.                                             *)
(***************************************************************************)
\* the entries of the first resolved step, if there is one
FirstCount == IF Len(steps) = 0 THEN NoRank ELSE ListCount(steps[1])

\* the i-th step is a later step whose entry count differs from the first's
Differs(i) == i > 1 /\ ListCount(steps[i]) # FirstCount

\* some rank file of step s has been asked for
AskedOf(s) == \E q \in 1 .. Len(opened) : opened[q].step = s

\* C2: the rank count is the entry count of the first resolved step from the
\* first pass on and never another value; the loop never passes a later step
\* whose entry count differs, the error raised there is the ValueError of the
\* rank check naming that step, no rank file of that step has been asked
\* for, and the reader does not return.
C2_RankCountFixed ==
    entry \in {"_read_viscosity", "read_md3d_swarm"} =>
        /\ n_rank \in {NoRank, FirstCount}
        /\ step_index > 1 => n_rank = FirstCount
        /\ \A i \in 1 .. Len(steps) :
              Differs(i) =>
                  /\ step_index <= i
                  /\ ~AskedOf(steps[i])
                  /\ pc # "returned"
                  /\ (pc = "failed" /\ step_index = i) =>
                        error = Raise(InvalidRanks, steps[i])

\* C2 witness: the check has failed at a later step that has more entries
\* than the first, all its rank files being there, after the rank files of
\* the steps before it were read
C2_Witness ==
    /\ entry \in {"_read_viscosity", "read_md3d_swarm"}
    /\ pc = "failed"
    /\ step_index > 1
    /\ Differs(step_index)
    /\ ListCount(steps[step_index]) > n_rank
    /\ n_rank > 0
    /\ rankFiles[steps[step_index]].ranks = Ranks
    /\ AskedOf(steps[1])
    /\ error.step = steps[step_index]

RECURSIVE RowsOfRanks(_, _)
\* the rows of the viscosity files of step s of the ranks below rank, in the
\* order they are read
RowsOfRanks(s, rank) ==
    IF rank <= 0 THEN <<>>
    ELSE RowsOfRanks(s, rank - 1)
         \o ViscosityLines(s, rank - 1, [a \in 1 .. Len(shape) |-> shape[a] - 1])

\* the indices a row carries, as written
RowIndex(row) == [a \in 1 .. Len(shape) |-> AsType_int(row[a])]

RowValue(row) == row[Len(shape) + 1]

\* the row carries an index below 0 or not below the centers of the axis
OutOfRange(row) ==
    \E a \in 1 .. Len(shape) : RowIndex(row)[a] < 0 \/ RowIndex(row)[a] >= shape[a] - 1

\* the cell numpy addresses with the indices of a row that is in bounds
Addressed(row) ==
    [a \in 1 .. Len(shape) |->
       IF RowIndex(row)[a] < 0 THEN RowIndex(row)[a] + shape[a] - 1
       ELSE RowIndex(row)[a]]

C15_OutOfRangeFails ==
    entry = "_read_viscosity" =>
        /\ pc = "returned" =>
              \A t \in 1 .. Len(steps) :
                 LET rows == RowsOfRanks(steps[t], n_rank)
                 IN  \A q \in 1 .. Len(rows) : ~OutOfRange(rows[q])
        /\ rowFault.kind \in {"negative", "large", "below"} =>
              \A idx \in DOMAIN data.cells : data.cells[idx] # FaultViscosity

RECURSIVE RowsBefore(_, _)
\* the rows of the files of step s of the ranks below rank
RowsBefore(s, rank) ==
    IF rank = 0 THEN 0 ELSE SwarmRowCount(s, rank - 1) + RowsBefore(s, rank - 1)

RECURSIVE BlocksBefore(_)
\* the rows of the steps before the i-th
BlocksBefore(i) ==
    IF i = 1 THEN 0 ELSE RowsBefore(steps[i - 1], n_rank) + BlocksBefore(i - 1)

\* C6: the returned table has, for every step of the index in its order, one
\* block of rows indexed by the step; the block is the rows of the rank files
\* 0 .. n_rank - 1 of the step in ascending rank order, each row of each file
\* once, every row with the resolved time of the step.
C6_SwarmTable ==
    (entry = "read_md3d_swarm" /\ pc = "returned") =>
        /\ Len(result) = BlocksBefore(Len(steps) + 1)
        /\ \A i \in 1 .. Len(steps) : \A rank \in 0 .. n_rank - 1 :
              \A k \in 1 .. SwarmRowCount(steps[i], rank) :
                 LET row == result[BlocksBefore(i) + RowsBefore(steps[i], rank) + k]
                     line == SwarmRow(steps[i], rank, k)
                 IN  /\ row.index = steps[i]
                     /\ row.time = times[i]
                     /\ <<row.x, row.y, row.z, row.cc0>> = SubSeq(line, 1, 4)

\* C6 witness: a table of two steps and two ranks has been returned, the
\* files of a step differ in their row counts and share a row
C6_Witness ==
    /\ entry = "read_md3d_swarm"
    /\ pc = "returned"
    /\ Len(steps) >= 2
    /\ n_rank >= 2
    /\ SwarmRowCount(steps[1], 0) # SwarmRowCount(steps[1], 1)
    /\ SubSeq(SwarmRow(steps[1], 0, 1), 1, 4) = SubSeq(SwarmRow(steps[1], 1, 1), 1, 4)
    /\ Len(result) = BlocksBefore(Len(steps) + 1)
    /\ Len(result) > 2 * n_rank


(***************************************************************************)
(* read_mandyoc_data(path, parameters_file, datasets) of io/grids.py and   *)
(* read_md3d_data(path) of io.py.                                          *)
(***************************************************************************)
DATASETS ==
    <<"temperature", "density", "radiogenic_heat", "viscosity_factor", "strain",
      "pressure", "viscosity", "velocity">>

SCALARS_ON_NODES == SubSeq(DATASETS, 1, 6)

Range(seq) == {seq[i] : i \in 1 .. Len(seq)}

PARAMETERS_FILE == [kind |-> "param", step |-> -1, rank |-> -1]

\* the lines the loop of _read_parameters does not skip
NonBlank(lines) == SelectSeq(lines, LAMBDA l : Len(l) > 0)

\* the entries _read_parameters adds under "# Add units"
UNITS ==
    [coords_units |-> "m", times_units |-> "Ma", temperature_units |-> "C",
     density_units |-> "kg/m^3", heat_units |-> "W/m^3",
     viscosity_factor_units |-> "dimensionless", viscosity_units |-> "Pa s",
     strain_rate_units |-> "s^(-1)"]

\* The exception the i-th of the non-blank lines nb raises in the loop, or
\* "none". The first line is a tuple of int(), the second a tuple of
\* float(); io.py unpacks each into three entries, io/utils.py asserts that
\* the second is as long as the first. A later line is unpacked into key and
\* value, and the value of print_step and stepMAX goes through int(), that
\* of timeMAX through float().
LineFault(nb, i, v) ==
    LET l == nb[i]
    IN  IF i = 1
        THEN IF \E t \in 1 .. Len(l) : ~CanInt(l[t]) THEN "ValueError"
             ELSE IF v = "md3d" /\ Len(l) # 3 THEN "ValueError"
             ELSE "none"
        ELSE IF i = 2
        THEN IF \E t \in 1 .. Len(l) : ~CanFloat(l[t]) THEN "ValueError"
             ELSE IF v = "md3d" /\ Len(l) # 3 THEN "ValueError"
             ELSE IF v = "mandyoc" /\ Len(l) # Len(nb[1]) THEN "AssertionError"
             ELSE "none"
        ELSE IF Len(l) # 2 THEN "ValueError"
        ELSE IF l[1].text \in {"print_step", "stepMAX"} /\ ~CanInt(l[2])
        THEN "ValueError"
        ELSE IF l[1].text = "timeMAX" /\ ~CanFloat(l[2]) THEN "ValueError"
        ELSE "none"

\* io/utils.py without its last branch: any dimension passes
AfterLoopFault_any(nb, v) ==
    IF v = "md3d" THEN "none"
    ELSE IF Len(nb) < 2 THEN "UnboundLocalError"
    ELSE "none"

\* The exception raised below the loop, or "none": io/utils.py reads the
\* local dimension, then max_coords if dimension is 2 or 3 (unbound when the
\* file had no such line) and raises ValueError for any other dimension;
\* io.py has no statement there that can fail.
AfterLoopFault(nb, v) ==
    IF v = "md3d" THEN "none"
    ELSE IF Len(nb) = 0 THEN "UnboundLocalError"
    ELSE IF Len(nb[1]) \notin {2, 3} THEN "ValueError"
    ELSE IF Len(nb) < 2 THEN "UnboundLocalError"
    ELSE "none"

Last(S) == CHOOSE i \in S : \A j \in S : j <= i

First(S) == CHOOSE i \in S : \A j \in S : i <= j

\* The dictionary _read_parameters returns for the lines of file. An entry
\* set later replaces an entry of the same key set before: the entries of
\* the first two lines come first, then one per line "key value", then (in
\* io/utils.py) dimension and the lengths, then the units.
ParametersDict(file, v) ==
    LET nb == NonBlank(file.lines)
        keyLines == SubSeq(nb, 3, Len(nb))
        named == {keyLines[i][1].text : i \in 1 .. Len(keyLines)}
        lineOf(k) == keyLines[Last({i \in 1 .. Len(keyLines) : keyLines[i][1].text = k})]
        dimension == Len(nb[1])
        below == IF v = "md3d" THEN {}
                 ELSE {"dimension", "x_length", "z_depth"}
                      \cup (IF dimension = 3 THEN {"y_length"} ELSE {})
        heads == IF v = "mandyoc" THEN {"shape"}
                 ELSE (IF Len(nb) > 0 THEN {"nx", "ny", "nz"} ELSE {})
                      \cup (IF Len(nb) > 1 THEN {"x_max", "y_max", "z_max"} ELSE {})
        regional == IF file.region = NoRegion THEN {} ELSE {"region"}
        axis(k) == IF k \in {"nx", "x_max", "x_length"} THEN 1
                   ELSE IF k \in {"ny", "y_max", "y_length"} THEN 2
                   ELSE IF k = "z_depth" THEN dimension ELSE 3
    IN  [k \in heads \cup named \cup regional \cup below \cup DOMAIN UNITS |->
           IF k \in DOMAIN UNITS THEN UNITS[k]
           ELSE IF k = "dimension" /\ k \in below THEN dimension
           ELSE IF k = "z_depth" /\ k \in below THEN 0 - nb[2][axis(k)].n
           ELSE IF k \in below THEN nb[2][axis(k)].n
           ELSE IF k = "region" /\ k \notin named THEN file.region
           ELSE IF k \in named
           THEN IF k \in {"print_step", "stepMAX", "timeMAX"} THEN lineOf(k)[2].n
                ELSE lineOf(k)[2]
           ELSE IF k = "shape" THEN [a \in 1 .. dimension |-> nb[1][a].n]
           ELSE IF k \in {"nx", "ny", "nz"} THEN nb[1][axis(k)].n
           ELSE nb[2][axis(k)].n]

\* _read_parameters on the parameters file file: OSError without the file,
\* else the exception of the first line that raises one, else that raised
\* below the loop, else the dictionary
ParseParameters(file, v) ==
    LET nb == NonBlank(file.lines)
        faulty == {i \in 1 .. Len(nb) : LineFault(nb, i, v) # "none"}
    IN  IF file.state # "ok" THEN Fail("OSError", TRUE)
        ELSE IF faulty # {} THEN Fail(LineFault(nb, First(faulty), v), TRUE)
        ELSE IF AfterLoopFault(nb, v) # "none" THEN Fail(AfterLoopFault(nb, v), TRUE)
        ELSE Ok(ParametersDict(file, v))

\* the keys of the dictionary _read_parameters returned
ParameterKeys == DOMAIN parameters

\* the sub-readers read_mandyoc_data calls, in order: the scalars on nodes
\* in the order of datasets, then velocity, then viscosity
MandyocPlan ==
    SelectSeq(datasets, LAMBDA d : d \in Range(SCALARS_ON_NODES))
    \o (IF "velocity" \in Range(datasets) THEN <<"velocity">> ELSE <<>>)
    \o (IF "viscosity" \in Range(datasets) THEN <<"viscosity">> ELSE <<>>)

\* the sub-readers read_md3d_data calls, in order
Md3dPlan ==
    <<"temperature", "density", "radiogenic_heat", "viscosity_factor", "strain",
      "velocity", "viscosity">>

Plan == IF entry = "read_mandyoc_data" THEN MandyocPlan ELSE Md3dPlan

\* where _read_parameters goes when it returns
AfterParameters ==
    IF entry \in Assemblers THEN "coordinates"
    ELSE IF entry = "read_swarm" THEN "swarm_locals"
    ELSE "returned"

\* the file is opened and parsed, and the dictionary is returned
_read_parameters ==
    /\ pc = "parameters"
    /\ ParseParameters(params, variant).ok
    /\ opened' = Append(opened, PARAMETERS_FILE)
    /\ parameters' = ParseParameters(params, variant).value
    /\ result' = IF AfterParameters # "returned" THEN result
                 ELSE ParseParameters(params, variant).value
    /\ pc' = AfterParameters
    /\ UNCHANGED <<held, callVars, todo, data_vars, coordinates, diskVars, argVars, step,
                   step_index, n_rank, steps, times, data, checked, error>>

\* there is no such file, or a statement of _read_parameters raises
_read_parameters_raise ==
    /\ pc = "parameters"
    /\ ~ParseParameters(params, variant).ok
    /\ opened' = Append(opened, PARAMETERS_FILE)
    /\ error' = Raise(ParseParameters(params, variant).err, -1)
    /\ pc' = "failed"
    /\ UNCHANGED <<held, callVars, asmVars, diskVars, argVars, step, step_index, n_rank,
                   steps, times, data, result, checked>>

\* a coordinate value num / den, den > 0
Frac(num, den) == [num |-> num, den |-> den]

\* np.linspace(start, stop, n) of two integers: n values in equal steps, the
\* first start and, for n > 1, the last stop
Linspace(start, stop, n) ==
    [m \in 1 .. n |->
       IF n = 1 THEN Frac(start, 1)
       ELSE Frac(start * (n - 1) + (m - 1) * (stop - start), n - 1)]

\* (axis[1:] + axis[:-1]) / 2
Centers(axis) ==
    [m \in 1 .. Len(axis) - 1 |->
       Frac(axis[m + 1].num * axis[m].den + axis[m].num * axis[m + 1].den,
            2 * axis[m].den * axis[m + 1].den)]

\* the local shape of the assembler: parameters["shape"] in
\* read_mandyoc_data, the entries nx, ny, nz in read_md3d_data
ShapeRead ==
    IF entry = "read_mandyoc_data" THEN Ok(parameters["shape"])
    ELSE IF {"nx", "ny", "nz"} \subseteq ParameterKeys
    THEN Ok(<<parameters["nx"], parameters["ny"], parameters["nz"]>>)
    ELSE Fail("KeyError", FALSE)

\* _build_coordinates(max_coords, shape) of io.py
BuildCoordinatesMd3d(max_coords, shape_) ==
    <<Linspace(0, max_coords[1], shape_[1]),
      Linspace(0 - max_coords[2], 0, shape_[2]),
      Linspace(0 - max_coords[3], 0, shape_[3])>>

\* the call of _build_coordinates. read_md3d_data passes the maximum
\* coordinates it has. read_mandyoc_data passes parameters["region"]:
\* KeyError without a line "region <value>" in the file; with one the value
\* is a string, its characters are unpacked (ValueError unless there are
\* two per axis) and np.linspace of strings raises TypeError
BuildCoordinates ==
    IF ~ShapeRead.ok THEN ShapeRead
    ELSE IF entry = "read_md3d_data"
    THEN IF {"x_max", "y_max", "z_max"} \subseteq ParameterKeys
         THEN Ok(BuildCoordinatesMd3d(
                   <<parameters["x_max"], parameters["y_max"], parameters["z_max"]>>,
                   ShapeRead.value))
         ELSE Fail("KeyError", FALSE)
    ELSE IF "region" \notin ParameterKeys THEN Fail("KeyError", FALSE)
    ELSE IF Len(parameters["region"]) # 2 * Len(ShapeRead.value)
    THEN Fail("ValueError", FALSE)
    ELSE Fail("TypeError", FALSE)

_build_coordinates ==
    /\ pc = "coordinates"
    /\ BuildCoordinates.ok
    /\ shape' = ShapeRead.value
    /\ coordinates' = BuildCoordinates.value
    /\ pc' = "call_times"
    /\ UNCHANGED <<held, callVars, todo, data_vars, parameters, diskVars, print_step,
                   max_steps, quantity, temperatures, step, step_index, n_rank,
                   steps, times, data, result, checked, opened, error>>

_build_coordinates_raise ==
    /\ pc = "coordinates"
    /\ ~BuildCoordinates.ok
    /\ shape' = IF ShapeRead.ok THEN ShapeRead.value ELSE shape
    /\ error' = Raise(BuildCoordinates.err, -1)
    /\ pc' = "failed"
    /\ UNCHANGED <<held, callVars, asmVars, diskVars, print_step, max_steps, quantity,
                   temperatures, step, step_index, n_rank, steps, times, data,
                   result, checked, opened>>

\* the call _read_times(path, parameters["print_step"], parameters["stepMAX"])
_read_times_call ==
    /\ pc = "call_times"
    /\ {"print_step", "stepMAX"} \subseteq ParameterKeys
    /\ print_step' = parameters["print_step"]
    /\ max_steps' = parameters["stepMAX"]
    /\ pc' = "times"
    /\ UNCHANGED <<held, callVars, asmVars, diskVars, shape, quantity, temperatures, step,
                   step_index, n_rank, steps, times, data, result, checked, opened,
                   error>>

\* the file has no line of print_step or none of stepMAX: KeyError
_read_times_call_raise ==
    /\ pc = "call_times"
    /\ ~({"print_step", "stepMAX"} \subseteq ParameterKeys)
    /\ error' = Raise("KeyError", -1)
    /\ pc' = "failed"
    /\ UNCHANGED <<held, callVars, asmVars, diskVars, argVars, step, step_index, n_rank,
                   steps, times, data, result, checked, opened>>

\* the dims a quantity is bound to
NodeDims == IF Len(shape) = 2 THEN <<"time", "x", "z">> ELSE <<"time", "x", "y", "z">>

CenterDims ==
    IF Len(shape) = 2 THEN <<"time", "x_center", "z_center">>
    ELSE <<"time", "x_center", "y_center", "z_center">>

Variable(name, dims, array) == [name |-> name, dims |-> dims, array |-> array]

\* the entries data_vars gets from what the sub-reader of q returned
Bind(q, returned) ==
    IF q = "none" THEN <<>>
    ELSE IF q = "viscosity" THEN <<Variable("viscosity", CenterDims, returned[1])>>
    ELSE IF q # "velocity" THEN <<Variable(q, NodeDims, returned[1])>>
    ELSE IF Len(shape) = 2
    THEN <<Variable("velocity_x", NodeDims, returned[1]),
           Variable("velocity_z", NodeDims, returned[2])>>
    ELSE <<Variable("velocity_x", NodeDims, returned[1]),
           Variable("velocity_y", NodeDims, returned[2]),
           Variable("velocity_z", NodeDims, returned[3])>>

\* the local variables of a sub-reader of q when it is called
Locals(q) ==
    IF q = "viscosity" THEN Zeros(Len(steps), shape_centers)
    ELSE IF q = "velocity" THEN [c \in 1 .. Components |-> <<>>]
    ELSE <<(<<>>)>>

Stage(q) == IF q \in {"velocity", "viscosity"} THEN q ELSE "scalars"

\* what the last sub-reader returned is bound and the next one is called
read_data_call ==
    /\ pc = "bind"
    /\ todo # <<>>
    /\ data_vars' = data_vars \o Bind(quantity, result)
    /\ quantity' = Head(todo)
    /\ todo' = Tail(todo)
    /\ pc' = Stage(Head(todo))
    /\ step_index' = 1
    /\ data' = Locals(Head(todo))
    /\ result' = NoResult
    /\ UNCHANGED <<held, callVars, diskVars, print_step, max_steps, shape, temperatures,
                   parameters, coordinates, step, n_rank, steps, times, checked,
                   opened, error>>

\* xr.Dataset(data_vars, coords): ValueError unless every array has one axis
\* per dim, of the size of the coordinate of the dim
Fits(var) ==
    var.array.shape
        = <<Len(steps)>> \o (IF var.dims = CenterDims THEN shape_centers ELSE shape)

\* the name of the centers of a node axis
CenterName == [x |-> "x_center", y |-> "y_center", z |-> "z_center"]

\* The dictionary coords but for time and step: the a-th array of
\* coordinates under the a-th name of the node axes, and the midpoints of
\* the same array under the name of its centers; read_mandyoc_data adds
\* the centers only when it reads the viscosity.
Coords ==
    LET axes == SubSeq(NodeDims, 2, Len(NodeDims))
        centers == entry = "read_md3d_data" \/ "viscosity" \in Range(datasets)
        of(k) == CHOOSE a \in 1 .. Len(axes) : k \in {axes[a], CenterName[axes[a]]}
    IN  [k \in Range(axes) \cup (IF centers THEN {CenterName[n] : n \in Range(axes)} ELSE {}) |->
           IF k \in Range(axes) THEN coordinates[of(k)] ELSE Centers(coordinates[of(k)])]

Dataset(vars_, steps_, times_) ==
    [data_vars |-> vars_, step |-> steps_, time |-> times_, coords |-> Coords,
     attrs |-> ParameterKeys]

\* every sub-reader has returned: the Dataset is built and returned
read_data_return ==
    /\ pc = "bind"
    /\ todo = <<>>
    /\ LET bound == data_vars \o Bind(quantity, result)
       IN  /\ \A v \in 1 .. Len(bound) : Fits(bound[v])
           /\ data_vars' = bound
           /\ result' = Dataset(bound, steps, times)
    /\ pc' = "returned"
    /\ UNCHANGED <<held, callVars, diskVars, argVars, todo, parameters, coordinates, step,
                   step_index, n_rank, steps, times, data, checked, opened, error>>

\* every sub-reader has returned and the Dataset cannot be built
read_data_raise ==
    /\ pc = "bind"
    /\ todo = <<>>
    /\ LET bound == data_vars \o Bind(quantity, result)
       IN  /\ \E v \in 1 .. Len(bound) : ~Fits(bound[v])
           /\ data_vars' = bound
    /\ error' = Raise("ValueError", -1)
    /\ pc' = "failed"
    /\ UNCHANGED <<held, callVars, diskVars, argVars, todo, parameters, coordinates, step,
                   step_index, n_rank, steps, times, data, result, checked, opened>>

(***************************************************************************)
(* The assemblers on the directories of a run, sound or with a fault.      *)
(***************************************************************************)
\* a directory with the files of the basenames in present for the steps of
\* index, but for the file of basename b at position bad (0: none), which
\* is short or absent
AssemblerDir(present, index, b, bad, badKind) ==
    [c \in FieldBasenames |->
       [s \in MarkerSteps |->
          IF c \notin present \/ s \notin Range(index) THEN Absent
          ELSE IF bad > 0 /\ c = b /\ s = index[bad] THEN badKind
          ELSE Output("ok")]]

\* rank files of visc_: all there for every step of index ("none"), another
\* entry at the last step ("more"), the last rank of the first step lost
\* ("lost"), or no rank files at all ("no")
RankFaults == {"none", "more", "lost", "no"}

AssemblerRanks(index, fault) ==
    [s \in MarkerSteps |->
       IF s \notin Range(index) \/ fault = "no" THEN NoRankFiles[s]
       ELSE [ranks |-> IF fault = "lost" /\ s = index[1]
                       THEN Ranks \ {MaxRanks - 1} ELSE Ranks,
             extra |-> IF fault = "more" /\ s = index[Len(index)] THEN 1 ELSE 0]]

\* the subsets a caller of read_mandyoc_data asks for
DatasetsDrawn ==
    {DATASETS, <<"temperature">>, <<"velocity", "temperature">>, <<"viscosity">>, <<>>}

GoodLayout == [lines |-> 2, colon |-> TRUE, space |-> TRUE]

BadLayout == [lines |-> 1, colon |-> FALSE, space |-> FALSE]

InitAssembler ==
    /\ NoOtherArgs
    /\ entry \in Assemblers
    /\ variant = IF entry = "read_mandyoc_data" THEN "mandyoc" ELSE "md3d"
    /\ datasets \in (IF entry = "read_mandyoc_data" THEN DatasetsDrawn ELSE {<<>>})
    /\ \E d \in (IF variant = "mandyoc" THEN {2, 3} ELSE {3}) :
         LET sound == SoundLines([a \in 1 .. d |-> 3])
         IN  params \in
               {Params("absent", sound, NoRegion), Params("ok", sound, NoRegion)}
               \cup (IF entry = "read_mandyoc_data"
                     THEN {Params("ok", sound, <<"0", "1", "2", "3">>),
                           Params("ok", sound, <<"0", "1", "0", "1", "0", "1">>)}
                     ELSE {Params("ok", <<>>, NoRegion),
                           Params("ok", SubSeq(sound, 1, 4), NoRegion)})
    /\ shape = <<>>
    /\ print_step = 0
    /\ max_steps = 0
    /\ layout \in {GoodLayout, BadLayout}
    /\ \E n \in 0 .. MaxSteps :
         LET index == StepIndex(n, MaxPrintStep)
         IN  /\ markers = Range(index)
             /\ \E present \in {FieldBasenames, {BASENAMES[q] : q \in Range(Plan) \ {"viscosity"}}},
                   b \in FieldBasenames, bad \in 0 .. n,
                   badKind \in {Absent, Output("short")} :
                   /\ bad = 0 => (b = VelocityBasename /\ badKind = Absent)
                   /\ fieldFiles = AssemblerDir(present, index, b, bad, badKind)
             /\ \E fault \in RankFaults : rankFiles = AssemblerRanks(index, fault)
    /\ tiny = NoTiny
    /\ rowSeed = 0
    /\ rowFault = NoRowFault
    /\ temperatures = NoArray
    /\ quantity = "none"
    /\ todo = Plan
    /\ data_vars = <<>>
    /\ parameters = NoParameters
    /\ coordinates = NoCoordinates
    /\ pc = "parameters"
    /\ step = 0
    /\ step_index = 1
    /\ n_rank = NoRank
    /\ steps = <<>>
    /\ times = <<>>
    /\ data = <<>>
    /\ result = NoResult
    /\ checked = <<>>
    /\ opened = <<>>
    /\ held = <<>>
    /\ error = NoError

NextAssembler ==
    \/ _read_parameters
    \/ _read_parameters_raise
    \/ _build_coordinates
    \/ _build_coordinates_raise
    \/ _read_times_call
    \/ _read_times_call_raise
    \/ _read_times
    \/ read_data_call
    \/ _read_scalars
    \/ _read_velocity
    \/ _read_viscosity
    \/ read_data_return
    \/ read_data_raise

SpecAssembler == InitAssembler /\ [][NextAssembler]_vars


(***************************************************************************)
(* Claims on read_mandyoc_data.                                            *)
(***************************************************************************)
\* the files of quantity q are there and complete for every marker
FilesSound(q) == \A s \in markers : FileAt(BASENAMES[q], s).state = "ok"

\* every step with a marker has all its rank files and no other entry
RanksSound ==
    \A s \in markers : rankFiles[s].ranks = Ranks /\ rankFiles[s].extra = 0

\* the call is over
Over == pc \in {"returned", "failed"}

Names(bound) == [v \in 1 .. Len(bound) |-> bound[v].name]

\* C4: read_mandyoc_data opens only the parameters file, the markers and the
\* files of the requested quantities; asked for the temperature alone in a
\* directory whose parameters file, markers and temperature files are sound,
\* it returns, and the dataset holds exactly the variable temperature.
C4_SubsetOnly ==
    entry = "read_mandyoc_data" =>
        /\ \A i \in 1 .. Len(opened) :
              opened[i].kind \in {PARAMETERS_FILE.kind, TIMES_BASENAME}
                                 \cup {BASENAMES[q] : q \in Range(datasets)}
        /\ (/\ datasets = <<"temperature">>
            /\ params.state = "ok"
            /\ markers # {}
            /\ layout = GoodLayout
            /\ FilesSound("temperature")
            /\ Over) =>
               /\ pc = "returned"
               /\ Names(data_vars) = <<"temperature">>

\* some sub-reader that read_mandyoc_data calls has an input it fails on
SubReaderFault ==
    \/ params.state # "ok"
    \/ markers # {} /\ layout # GoodLayout
    \/ \E q \in Range(MandyocPlan) \ {"viscosity"} : ~FilesSound(q)
    \/ "viscosity" \in Range(MandyocPlan) /\ ~RanksSound

\* C5: read_mandyoc_data returns a dataset that holds every requested
\* quantity with one time slice per resolved step, or it fails and then a
\* requested sub-reader has an input it fails on.
C5_AllOrFirstError ==
    entry = "read_mandyoc_data" =>
        /\ pc = "returned" =>
              /\ \A q \in Range(MandyocPlan) \ {"velocity"} :
                    q \in Range(Names(data_vars))
              /\ \A v \in 1 .. Len(data_vars) :
                    data_vars[v].array.shape[1] = Len(steps)
        /\ pc = "failed" => SubReaderFault


(***************************************************************************)
(* _read_parameters on well-formed and malformed parameters files.         *)
(***************************************************************************)
\* the most tokens a line of a drawn file has
MaxTokens == 4

\* the most lines a drawn file has below its first two
MaxKeyLines == 2

\* the first lines drawn: k integers, or k tokens whose last is no integer
FirstLinesDrawn ==
    {[t \in 1 .. k |-> IntTok(3)] : k \in 1 .. MaxTokens}
    \cup {[t \in 1 .. k |-> IF t = k THEN bad ELSE IntTok(3)] :
            k \in 2 .. 3, bad \in {Word("abc"), FloatTok(3)}}

\* the second lines drawn: k numbers, or k tokens whose last is no number
SecondLinesDrawn ==
    {[t \in 1 .. k |-> FloatTok(2 * t)] : k \in 1 .. MaxTokens}
    \cup {[t \in 1 .. k |-> IF t = k THEN IntTok(2 * t) ELSE FloatTok(2 * t)] : k \in 2 .. 3}
    \cup {[t \in 1 .. k |-> IF t = k THEN Word("abc") ELSE FloatTok(2 * t)] : k \in 2 .. 3}

\* the later lines drawn: blank, "key value" with a value the key takes or
\* not, one token, three tokens
KeyLinesDrawn ==
    {<<>>,
     KeyLine("print_step", IntTok(2)), KeyLine("print_step", FloatTok(2)),
     KeyLine("stepMAX", Word("abc")), KeyLine("timeMAX", FloatTok(5)),
     KeyLine("timeMAX", Word("abc")), KeyLine("sp_mode", Word("abc")),
     <<Word("print_step")>>,
     <<Word("print_step"), IntTok(2), IntTok(2)>>}

\* the files drawn: a blank line or none, then no line, a first line, or a
\* first and a second line and up to MaxKeyLines later lines
FilesDrawn ==
    LET heads == {<<>>} \cup {<<f>> : f \in FirstLinesDrawn}
        tails == UNION {[1 .. n -> KeyLinesDrawn] : n \in 0 .. MaxKeyLines}
        full == {<<f, g>> \o t : f \in FirstLinesDrawn, g \in SecondLinesDrawn, t \in tails}
    IN  {b \o l : b \in {<<>>, <<(<<>>)>>}, l \in heads \cup full}

InitParameters ==
    /\ NoOtherArgs
    /\ entry = "_read_parameters"
    /\ variant \in {"md3d", "mandyoc"}
    /\ \E l \in FilesDrawn : params = Params("ok", l, NoRegion)
    /\ datasets = <<>>
    /\ todo = <<>>
    /\ data_vars = <<>>
    /\ parameters = NoParameters
    /\ coordinates = NoCoordinates
    /\ markers = {}
    /\ layout = [lines |-> 2, colon |-> TRUE, space |-> TRUE]
    /\ fieldFiles = NoFieldFiles
    /\ tiny = NoTiny
    /\ rankFiles = NoRankFiles
    /\ rowSeed = 0
    /\ rowFault = NoRowFault
    /\ shape = <<>>
    /\ print_step = 0
    /\ max_steps = 0
    /\ quantity = "none"
    /\ temperatures = NoArray
    /\ pc = "parameters"
    /\ step = 0
    /\ step_index = 1
    /\ n_rank = NoRank
    /\ steps = <<>>
    /\ times = <<>>
    /\ data = <<>>
    /\ result = NoResult
    /\ checked = <<>>
    /\ opened = <<>>
    /\ held = <<>>
    /\ error = NoError

NextParameters == _read_parameters \/ _read_parameters_raise

SpecParameters == InitParameters /\ [][NextParameters]_vars


(***************************************************************************)
(* Claims on _read_parameters.                                             *)
(***************************************************************************)
\* the i-th non-blank line of the parameters file, <<>> if it has none
LineOf(i) ==
    IF i <= Len(NonBlank(params.lines)) THEN NonBlank(params.lines)[i] ELSE <<>>

\* the non-blank lines of the parameters file below the second
LaterLines == {i \in 3 .. Len(NonBlank(params.lines)) : TRUE}

\* a first line, a second line or a later line breaks the rule the claim
\* gives for it
CountsWrong ==
    \/ Len(LineOf(1)) \notin {2, 3}
    \/ Len(LineOf(2)) # Len(LineOf(1))
    \/ \E i \in LaterLines : Len(LineOf(i)) # 2

\* a token that has to be a number is none
CoercionFails ==
    \/ \E t \in 1 .. Len(LineOf(1)) : LineOf(1)[t].kind # "int"
    \/ \E t \in 1 .. Len(LineOf(2)) : LineOf(2)[t].kind = "word"
    \/ \E i \in LaterLines :
          /\ Len(LineOf(i)) = 2
          /\ \/ LineOf(i)[1].text \in {"print_step", "stepMAX"} /\ LineOf(i)[2].kind # "int"
             \/ LineOf(i)[1].text = "timeMAX" /\ LineOf(i)[2].kind = "word"

\* a line the reader of io.py unpacks into three entries has another length
NotThree ==
    \/ \E i \in {1, 2} : LineOf(i) # <<>> /\ Len(LineOf(i)) # 3
    \/ \E i \in LaterLines : Len(LineOf(i)) # 2

ParametersCall == entry = "_read_parameters" /\ pc \in {"returned", "failed"}

\* the statement of C16 as the claim gives it: the call fails exactly when
\* one of the three counts is wrong, whichever reader runs, and a record
\* that is returned holds the length of the first line as its dimension
C16_ParseOrFail ==
    ParametersCall =>
        /\ pc = "failed" <=> CountsWrong
        /\ pc = "failed" => result = NoResult
        /\ pc = "returned" =>
              /\ "dimension" \in DOMAIN result
              /\ result["dimension"] = Len(LineOf(1))

\* C16: _read_parameters of io/utils.py fails, and returns no record, when
\* the first non-blank line has other than 2 or 3 entries, the second has
\* not as many as the first, a later non-blank line has other than two
\* tokens, or a token that has to be a number is none; otherwise it returns
\* a record whose dimension is the length of the first line. The reader of
\* io.py fails when one of the first two lines is there with other than
\* three entries, a later non-blank line has other than two tokens, or a
\* token that has to be a number is none; otherwise it returns a record,
\* which has no entry dimension.
C16_ParseOrFailCoerced ==
    ParametersCall =>
        /\ variant = "mandyoc" => (pc = "failed" <=> (CountsWrong \/ CoercionFails))
        /\ variant = "md3d" => (pc = "failed" <=> (NotThree \/ CoercionFails))
        /\ pc = "failed" => result = NoResult /\ parameters = NoParameters
        /\ (pc = "returned" /\ variant = "mandyoc") =>
              /\ "dimension" \in DOMAIN result
              /\ result["dimension"] = Len(LineOf(1))
        /\ (pc = "returned" /\ variant = "md3d") => "dimension" \notin DOMAIN result

C16_Witness ==
    /\ ParametersCall
    /\ variant = "mandyoc"
    /\ pc = "returned"
    /\ result["dimension"] = 2
    /\ Len(params.lines) > Len(NonBlank(params.lines))
    /\ "print_step" \in DOMAIN result


(***************************************************************************)
(* Claims on the coordinates of the assemblers.                            *)
(***************************************************************************)
\* the fractions a and b are the same number; a is at most b
FracEq(a, b) == a.num * b.den = b.num * a.den

FracLe(a, b) == a.num * b.den <= b.num * a.den

\* the parameters file is there and well formed for the reader of io/utils.py
ValidFile == params.state = "ok" /\ ~CountsWrong /\ ~CoercionFails

\* the assembler is past its call of _build_coordinates, or has failed in it
PastCoordinates == entry \in Assemblers /\ pc \notin {"parameters", "coordinates"}

\* C17: for every valid 2D or 3D parameters file the assembler builds
\* coordinates with one axis per dimension, each as long as the entry of the
\* parsed shape; x runs from 0 to x_max without decreasing, z runs from
\* -z_max to 0, and the end points are values of the axes.
C17_Coordinates ==
    (PastCoordinates /\ ValidFile) =>
        /\ Len(coordinates) = Len(LineOf(1))
        /\ \A a \in 1 .. Len(coordinates) : Len(coordinates[a]) = LineOf(1)[a].n
        /\ LET x == coordinates[1]
               z == coordinates[Len(coordinates)]
               x_max == LineOf(2)[1].n
               z_max == LineOf(2)[Len(LineOf(2))].n
           IN  /\ FracEq(x[1], Frac(0, 1))
               /\ FracEq(x[Len(x)], Frac(x_max, 1))
               /\ \A m \in 1 .. Len(x) - 1 : FracLe(x[m], x[m + 1])
               /\ FracEq(z[1], Frac(0 - z_max, 1))
               /\ FracEq(z[Len(z)], Frac(0, 1))


(***************************************************************************)
(* Claims on the datasets of the assemblers.                               *)
(***************************************************************************)
\* the parameters file has a line of key
HasKey(key) == \E i \in LaterLines : LineOf(i)[1].text = key

\* the directory has nothing an assembler fails on: a valid parameters file
\* with print_step and stepMAX, markers of the accepted layout for the
\* steps 0 and print_step, and for every one of them the complete files of
\* every quantity the assembler reads
SoundDirectory ==
    /\ ValidFile
    /\ HasKey("print_step") /\ HasKey("stepMAX")
    /\ markers = {0, MaxPrintStep}
    /\ layout = GoodLayout
    /\ \A q \in Range(Plan) \ {"viscosity"} : FilesSound(q)
    /\ "viscosity" \in Range(Plan) => RanksSound

\* the axis of the returned dataset named node has n values and the axis
\* named CenterName[node] has the n - 1 midpoints of its neighbours
MidpointsOf(node) ==
    LET nodes == result.coords[node]
        mids == result.coords[CenterName[node]]
    IN  /\ Len(mids) = Len(nodes) - 1
        /\ \A m \in 1 .. Len(mids) :
              FracEq(Frac(2 * mids[m].num, mids[m].den),
                     Frac(nodes[m].num * nodes[m + 1].den + nodes[m + 1].num * nodes[m].den,
                          nodes[m].den * nodes[m + 1].den))

\* C18: an assembler that reads the viscosity of a sound directory returns
\* a dataset; in a returned dataset the viscosity has the dims time and
\* x_center[, y_center], z_center, each center axis holds the n - 1
\* midpoints of the consecutive values of the node axis of its name, and
\* every other variable has the node dims time, x[, y], z.
C18_CenterDims ==
    entry \in Assemblers =>
        /\ (SoundDirectory /\ "viscosity" \in Range(Plan) /\ Over) =>
              /\ pc = "returned"
              /\ "viscosity" \in Range(Names(data_vars))
        /\ pc = "returned" =>
              \A v \in 1 .. Len(result.data_vars) :
                 LET var == result.data_vars[v]
                     axes == SubSeq(NodeDims, 2, Len(NodeDims))
                 IN  IF var.name = "viscosity"
                     THEN /\ var.dims = <<"time">> \o [a \in 1 .. Len(axes) |-> CenterName[axes[a]]]
                          /\ \A a \in 1 .. Len(axes) :
                                /\ MidpointsOf(axes[a])
                                /\ var.array.shape[a + 1] = Len(result.coords[axes[a]]) - 1
                     ELSE /\ var.dims = <<"time">> \o axes
                          /\ \A a \in 1 .. Len(axes) :
                                var.array.shape[a + 1] = Len(result.coords[axes[a]])

\* C19: read_mandyoc_data on a sound 2D directory (a valid parameters file
\* of two shape integers nx nz, markers for the steps 0 and print_step,
\* complete files of the requested quantities) returns a dataset whose
\* scalar fields and whose velocity_x and velocity_z have the shape
\* (2, nx, nz), whose steps are 0 and print_step and whose times are the
\* values of the markers scaled to Ma.
C19_EndToEnd2D ==
    (/\ entry = "read_mandyoc_data"
     /\ Len(LineOf(1)) = 2
     /\ "temperature" \in Range(datasets)
     /\ SoundDirectory
     /\ Over) =>
        /\ pc = "returned"
        /\ \A q \in Range(datasets) \ {"velocity", "viscosity"} :
              q \in Range(Names(result.data_vars))
        /\ "velocity" \in Range(datasets) =>
              /\ {"velocity_x", "velocity_z"} \subseteq Range(Names(result.data_vars))
              /\ "velocity_y" \notin Range(Names(result.data_vars))
        /\ \A v \in 1 .. Len(result.data_vars) :
              result.data_vars[v].name # "viscosity" =>
                 result.data_vars[v].array.shape
                    = <<2, LineOf(1)[1].n, LineOf(1)[2].n>>
        /\ result.step = <<0, MaxPrintStep>>
        /\ result.time = <<ScaleMa(MarkerValue(0)), ScaleMa(MarkerValue(MaxPrintStep))>>


(***************************************************************************)
(* Claims on the file handles.                                             *)
(***************************************************************************)
\* C20: whichever reader runs, at most one file is open at any point of
\* its loops, each file being closed before the next is opened, and no file
\* is open when the reader has returned or failed.
C20_OneHandle ==
    /\ Len(held) <= 1
    /\ pc \in {"returned", "failed"} => held = <<>>


(***************************************************************************)
(* save_interfaces(interfaces, layers_parameters, path, fname) of          *)
(* io/interfaces.py. interfaces is the Dataset: names is the number of its *)
(* variables, one per interface in the order of the Dataset, and           *)
(* values[col][i] is the depth of the interface i at the grid column col,  *)
(* the columns in the order they are written; layers_parameters is the     *)
(* sequence of the items of the dictionary, each a key and the length n of *)
(* its list.                                                               *)
(***************************************************************************)
FLAGS ==
    ("viscosity_factor" :> "C") @@ ("density" :> "rho") @@ ("radiogenic_heat" :> "H")
    @@ ("pre-factor" :> "A") @@ ("exponential_factor" :> "n")
    @@ ("activation_energy" :> "Q") @@ ("activation_volume" :> "V")

\* the order of the keys of FLAGS
FlagKeys ==
    <<"viscosity_factor", "density", "radiogenic_heat", "pre-factor",
      "exponential_factor", "activation_energy", "activation_volume">>

Layer(key, n) == [key |-> key, n |-> n]

LayerKeys == {layers_parameters[i].key : i \in 1 .. Len(layers_parameters)}

\* np.allclose(a, b) of two integers: |a - b| <= 1e-8 + 1e-5 * |b|, which
\* for integers is 100000 * |a - b| <= |b|
AllClose(a, b) == Abs(a - b) <= Abs(b) \div (100 * 1000)

\* _check_all_parameters raises nothing
CheckAllParameters == \A i \in 1 .. Len(FlagKeys) : FlagKeys[i] \in LayerKeys

\* _check_length_parameters raises nothing
CheckLengthParameters ==
    \A i \in 1 .. Len(layers_parameters) :
       AllClose(layers_parameters[1].n, layers_parameters[i].n)

\* _check_length_interfaces raises nothing
CheckLengthInterfaces == AllClose(layers_parameters[1].n, interfaces.names + 1)

\* a comparison that looks at the first grid column only
NotBelow_first_column(i) ==
    \A col \in DOMAIN interfaces.values \cap {1} :
       interfaces.values[col][i + 1] >= interfaces.values[col][i]

\* interfaces[inames[i + 1]] >= interfaces[inames[i]] at every grid column
NotBelow(i) ==
    \A col \in DOMAIN interfaces.values :
       interfaces.values[col][i + 1] >= interfaces.values[col][i]

\* the values of i at which the loop of _check_order_of_interfaces raises
OrderFaults == {i \in 1 .. interfaces.names - 1 : ~NotBelow(i)}

\* the header: per item of the dictionary its flag and its values
HeaderLines ==
    [i \in 1 .. Len(layers_parameters) |->
       [kind |-> "header", flag |-> FLAGS[layers_parameters[i].key],
        n |-> layers_parameters[i].n]]

\* np.hstack of the raveled interfaces: one row per grid column, one value
\* per interface in the order of the Dataset
StackedInterfaces ==
    IF interfaces.names = 0 THEN <<>>
    ELSE [col \in DOMAIN interfaces.values |->
            [kind |-> "row", values |-> interfaces.values[col]]]

FNAME == "interfaces_creep.txt"

\* the file of the call
InterfacesFile == FileAt(FNAME, SavedStep)

\* the four checks of save_interfaces in their order: the first that fails
\* raises ValueError
ChecksPass ==
    /\ CheckAllParameters
    /\ CheckLengthParameters
    /\ CheckLengthInterfaces
    /\ OrderFaults = {}

save_interfaces_raise ==
    /\ pc = "save_interfaces"
    /\ ~ChecksPass
    /\ error' = Raise("ValueError",
                      IF CheckAllParameters /\ CheckLengthParameters /\ CheckLengthInterfaces
                      THEN First(OrderFaults) ELSE -1)
    /\ pc' = "failed"
    /\ UNCHANGED <<held, callVars, asmVars, diskVars, argVars, step, step_index,
                   n_rank, steps, times, data, result, checked, opened>>

\* a key of the dictionary that FLAGS lacks: KeyError while the header is
\* built
save_interfaces_keyerror ==
    /\ pc = "save_interfaces"
    /\ ChecksPass
    /\ ~(LayerKeys \subseteq DOMAIN FLAGS)
    /\ error' = Raise("KeyError", -1)
    /\ pc' = "failed"
    /\ UNCHANGED <<held, callVars, asmVars, diskVars, argVars, step, step_index,
                   n_rank, steps, times, data, result, checked, opened>>

\* a Dataset without variables: ValueError of transpose("x"), which finds
\* no such dimension, or of np.hstack, which needs an array
save_interfaces_empty ==
    /\ pc = "save_interfaces"
    /\ ChecksPass
    /\ LayerKeys \subseteq DOMAIN FLAGS
    /\ interfaces.names = 0
    /\ error' = Raise("ValueError", -1)
    /\ pc' = "failed"
    /\ UNCHANGED <<held, callVars, asmVars, diskVars, argVars, step, step_index,
                   n_rank, steps, times, data, result, checked, opened>>

\* the header and the stacked interfaces are written
save_interfaces_write ==
    /\ pc = "save_interfaces"
    /\ ChecksPass
    /\ LayerKeys \subseteq DOMAIN FLAGS
    /\ interfaces.names > 0
    /\ fieldFiles' = (FNAME :> (SavedStep :> Written(HeaderLines \o StackedInterfaces)))
                      @@ fieldFiles
    /\ pc' = "returned"
    /\ UNCHANGED <<held, callVars, asmVars, markers, layout, tiny, rankFiles, rowSeed,
                   rowFault, params, argVars, step, step_index, n_rank, steps, times,
                   data, result, checked, opened, error>>

save_interfaces ==
    \/ save_interfaces_raise
    \/ save_interfaces_keyerror
    \/ save_interfaces_empty
    \/ save_interfaces_write

\* _check_order_of_interfaces(interfaces) called on its own
_check_order_of_interfaces_raise ==
    /\ pc = "check_order"
    /\ OrderFaults # {}
    /\ error' = Raise("ValueError", First(OrderFaults))
    /\ pc' = "failed"
    /\ UNCHANGED <<held, callVars, asmVars, diskVars, argVars, step, step_index,
                   n_rank, steps, times, data, result, checked, opened>>

_check_order_of_interfaces_return ==
    /\ pc = "check_order"
    /\ OrderFaults = {}
    /\ pc' = "returned"
    /\ UNCHANGED <<held, callVars, asmVars, diskVars, argVars, step, step_index,
                   n_rank, steps, times, data, result, checked, opened, error>>

_check_order_of_interfaces ==
    _check_order_of_interfaces_raise \/ _check_order_of_interfaces_return

\* the most interfaces a drawn Dataset has
MaxInterfaces == 3

\* the grid columns of the drawn interfaces and the depths drawn
Columns == 1 .. 2

Depths == {-2, -1, 0}

\* the Datasets of up to MaxInterfaces interfaces with depths of the set
InterfacesDrawn(depths) ==
    UNION {{[names |-> k, values |-> v] : v \in [Columns -> [1 .. k -> depths]]} :
              k \in 0 .. MaxInterfaces}

\* the smallest length from which np.allclose takes a list one longer for
\* as long: 1 / rtol
ManyLayers == 100 * 1000

\* the dictionary with the keys of FLAGS, each with a list of n values
AllFlags(n) == [i \in 1 .. Len(FlagKeys) |-> Layer(FlagKeys[i], n)]

\* the dictionaries drawn for lists of n values: sound, without its first
\* or its last key, with a first or a later list that is longer, with a key
\* FLAGS does not have
LayersDrawn(n) ==
    {AllFlags(n), Tail(AllFlags(n)), SubSeq(AllFlags(n), 1, Len(FlagKeys) - 1),
     [AllFlags(n) EXCEPT ![1] = Layer(FlagKeys[1], n + 1)],
     [AllFlags(n) EXCEPT ![3] = Layer(FlagKeys[3], n + 1)],
     Append(AllFlags(n), Layer("cohesion", n))}

\* n interfaces over a coordinate x without points: no grid column
EmptyGridInterfaces(n) == [names |-> n, values |-> <<>>]

\* the calls with very many layers: interfaces, one fewer than a hundred
\* thousand, with one list a value longer than the others or all lists a
\* value longer than there are layers

ManyDrawn ==
    {[layers |-> [AllFlags(ManyLayers) EXCEPT ![3] = Layer(FlagKeys[3], ManyLayers + 1)],
      interfaces |-> EmptyGridInterfaces(ManyLayers - 1)],
     [layers |-> AllFlags(ManyLayers + 1),
      interfaces |-> EmptyGridInterfaces(ManyLayers - 1)]}

InitInterfaces ==
    /\ entry \in {"save_interfaces", "_check_order_of_interfaces"}
    /\ variant = "mandyoc"
    /\ velocity = NoVelocity
    /\ region = NoRegion
    /\ vertices = NoVertices
    /\ direction = "none"
    /\ IF entry = "save_interfaces"
       THEN \/ /\ interfaces \in InterfacesDrawn({-1, 0})
               /\ \E n \in 0 .. MaxInterfaces + 1 : layers_parameters \in LayersDrawn(n)
            \/ \E m \in ManyDrawn :
                  /\ interfaces = m.interfaces
                  /\ layers_parameters = m.layers
       ELSE /\ interfaces \in InterfacesDrawn(Depths)
            /\ layers_parameters = NoLayers
    /\ pc = IF entry = "save_interfaces" THEN "save_interfaces" ELSE "check_order"
    /\ NoAssembler
    /\ markers = {}
    /\ layout = GoodLayout
    /\ fieldFiles = NoFieldFiles
    /\ tiny = NoTiny
    /\ rankFiles = NoRankFiles
    /\ rowSeed = 0
    /\ rowFault = NoRowFault
    /\ shape = <<>>
    /\ print_step = 0
    /\ max_steps = 0
    /\ quantity = "none"
    /\ temperatures = NoArray
    /\ step = 0
    /\ step_index = 1
    /\ n_rank = NoRank
    /\ steps = <<>>
    /\ times = <<>>
    /\ data = <<>>
    /\ result = NoResult
    /\ checked = <<>>
    /\ opened = <<>>
    /\ held = <<>>
    /\ error = NoError

NextInterfaces == save_interfaces \/ _check_order_of_interfaces

SpecInterfaces == InitInterfaces /\ [][NextInterfaces]_vars


(***************************************************************************)
(* Claims on save_interfaces.                                              *)
(***************************************************************************)
\* every list of layers_parameters has as many values as the first
SameLength ==
    \A i \in 1 .. Len(layers_parameters) :
       layers_parameters[i].n = layers_parameters[1].n

\* the interface b is nowhere below the interface a
Above(b, a) ==
    \A col \in DOMAIN interfaces.values :
       interfaces.values[col][b] >= interfaces.values[col][a]

\* deepest first: every interface is nowhere below the one before it
DeepestFirst == \A i \in 1 .. interfaces.names - 1 : Above(i + 1, i)

\* the four conditions of the claim
Conditions ==
    /\ \A k \in DOMAIN FLAGS : k \in LayerKeys
    /\ SameLength
    /\ layers_parameters[1].n = interfaces.names + 1
    /\ DeepestFirst

\* C23: save_interfaces writes the file only if every parameter of FLAGS is
\* in layers_parameters, all lists have the same length, that length is the
\* number of interfaces plus one and the interfaces go from the deepest to
\* the shallowest; if one of the four fails, ValueError is raised and
\* nothing is written.
C23_WrittenOnlyIfChecked ==
    entry = "save_interfaces" =>
        /\ InterfacesFile.state = "written" => Conditions
        /\ (pc \in {"returned", "failed"} /\ ~Conditions) =>
              /\ pc = "failed"
              /\ error.kind = "ValueError"
              /\ InterfacesFile = Absent


(***************************************************************************)
(* Claims on _check_order_of_interfaces.                                   *)
(***************************************************************************)
OrderCall == entry = "_check_order_of_interfaces"

\* C30: comparing adjacent interfaces suffices: when the check passes, every
\* interface b after an interface a of the dataset, neighbour or not, is at
\* every grid column at least as high as a; and the check raises ValueError
\* at the first adjacent pair that violates this at some grid column.
C30_AdjacentSuffices ==
    OrderCall =>
        /\ pc = "returned" =>
              \A a \in 1 .. interfaces.names : \A b \in a + 1 .. interfaces.names : Above(b, a)
        /\ (pc \in {"returned", "failed"} /\ ~DeepestFirst) =>
              /\ pc = "failed"
              /\ error.kind = "ValueError"
              /\ ~Above(error.step + 1, error.step)
              /\ \A i \in 1 .. error.step - 1 : Above(i + 1, i)

\* three interfaces that rise from the first to the third passed the check
C30_Witness ==
    /\ OrderCall
    /\ pc = "returned"
    /\ interfaces.names = 3
    /\ \E col \in Columns : interfaces.values[col][1] < interfaces.values[col][2]
    /\ \E col \in Columns : interfaces.values[col][2] < interfaces.values[col][3]


(***************************************************************************)
(* grid_coordinates(region, shape) of coordinates.py.                      *)
(***************************************************************************)
\* _check_region(region): whether it raises ValueError. A region of six
\* values is unpacked and x_min is compared with x_max, under a message
\* about y; then, as for four values, x_min with x_max and z_min with z_max
CheckRegionRaises(region_) ==
    IF Len(region_) = 4
    THEN region_[1] > region_[2] \/ region_[3] > region_[4]
    ELSE IF Len(region_) = 6
    THEN \/ region_[1] > region_[2]
         \/ region_[1] > region_[2]
         \/ region_[5] > region_[6]
    ELSE TRUE

\* _check_region_shape(region, shape): whether it raises ValueError
CheckRegionShapeRaises(region_, shape_) ==
    \/ Len(shape_) \notin {2, 3}
    \/ Len(shape_) # Len(region_) \div 2

\* the coordinates of the DataArray: np.linspace per axis of the shape
GridCoordinates(region_, shape_) ==
    [a \in 1 .. Len(shape_) |-> Linspace(region_[2 * a - 1], region_[2 * a], shape_[a])]

grid_coordinates_raise ==
    /\ pc = "grid_coordinates"
    /\ CheckRegionRaises(region) \/ CheckRegionShapeRaises(region, shape)
    /\ error' = Raise("ValueError", -1)
    /\ pc' = "failed"
    /\ UNCHANGED <<held, callVars, asmVars, diskVars, argVars, step, step_index,
                   n_rank, steps, times, data, result, checked, opened>>

grid_coordinates_return ==
    /\ pc = "grid_coordinates"
    /\ ~CheckRegionRaises(region)
    /\ ~CheckRegionShapeRaises(region, shape)
    /\ coordinates' = GridCoordinates(region, shape)
    /\ pc' = "returned"
    /\ UNCHANGED <<held, callVars, todo, data_vars, parameters, diskVars, argVars, step,
                   step_index, n_rank, steps, times, data, result, checked, opened,
                   error>>

grid_coordinates == grid_coordinates_raise \/ grid_coordinates_return

\* the boundaries drawn for a region
Boundaries == -1 .. 1

\* the regions drawn: four and six boundaries, and three and five
RegionsDrawn == UNION {[1 .. n -> Boundaries] : n \in {4, 6}} \cup {<<0, 1, 0>>, <<0, 1, 0, 1, 0>>}

\* the shapes drawn: one to four numbers of grid points
GridShapesDrawn == UNION {[1 .. n -> 1 .. MaxN] : n \in {2, 3}} \cup {<<MaxN>>, <<1, 1, 1, 1>>}

InitCoordinates ==
    /\ entry = "grid_coordinates"
    /\ variant = "mandyoc"
    /\ region \in RegionsDrawn
    /\ shape \in GridShapesDrawn
    /\ velocity = NoVelocity
    /\ interfaces = NoInterfaces
    /\ layers_parameters = NoLayers
    /\ vertices = NoVertices
    /\ direction = "none"
    /\ pc = "grid_coordinates"
    /\ NoAssembler
    /\ markers = {}
    /\ layout = GoodLayout
    /\ fieldFiles = NoFieldFiles
    /\ tiny = NoTiny
    /\ rankFiles = NoRankFiles
    /\ rowSeed = 0
    /\ rowFault = NoRowFault
    /\ print_step = 0
    /\ max_steps = 0
    /\ quantity = "none"
    /\ temperatures = NoArray
    /\ step = 0
    /\ step_index = 1
    /\ n_rank = NoRank
    /\ steps = <<>>
    /\ times = <<>>
    /\ data = <<>>
    /\ result = NoResult
    /\ checked = <<>>
    /\ opened = <<>>
    /\ held = <<>>
    /\ error = NoError


(***************************************************************************)
(* interface_from_vertices(vertices, coordinates, direction) of            *)
(* interfaces.py, on coordinates that grid_coordinates returned.           *)
(***************************************************************************)
\* coordinates.dims
CoordinateDims == IF Len(coordinates) = 3 THEN <<"x", "y", "z">> ELSE <<"x", "z">>

\* coordinates[name]
Coordinate(name) ==
    coordinates[CHOOSE a \in 1 .. Len(coordinates) : CoordinateDims[a] = name]

\* vertices[:, 0]
VerticesX == [k \in 1 .. Len(vertices) |-> vertices[k][1]]

\* the least and the greatest member of a sequence of fractions
FracMin(axis) == CHOOSE v \in Range(axis) : \A w \in Range(axis) : FracLe(v, w)

FracMax(axis) == CHOOSE v \in Range(axis) : \A w \in Range(axis) : FracLe(w, v)

\* np.allclose(a, b) of a coordinate a and an integer b:
\* |a - b| <= 1e-8 + 1e-5 * |b|
AllCloseFrac(a, b) == Abs(a.num - b * a.den) * Pow10(8) <= a.den * (1 + 1000 * Abs(b))

\* _check_boundary_vertices(vertices, x_min, x_max) raises ValueError
CheckBoundaryVerticesRaises(x_min, x_max) ==
    \/ ~AllCloseFrac(x_min, First(Range(VerticesX)))
    \/ ~AllCloseFrac(x_max, Last(Range(VerticesX)))

\* np.interp(x, vertices[:, 0], vertices[:, 1]) at one coordinate x, for
\* vertices of increasing vertices[:, 0]
Interp(x) ==
    LET n == Len(vertices) IN
    IF x.num <= vertices[1][1] * x.den THEN Frac(vertices[1][2], 1)
    ELSE IF x.num >= vertices[n][1] * x.den THEN Frac(vertices[n][2], 1)
    ELSE LET k == CHOOSE j \in 1 .. n - 1 :
                     /\ vertices[j][1] * x.den <= x.num
                     /\ x.num < vertices[j + 1][1] * x.den
             dh == vertices[k + 1][1] - vertices[k][1]
             dz == vertices[k + 1][2] - vertices[k][2]
         IN  Frac(vertices[k][2] * x.den * dh + (x.num - vertices[k][1] * x.den) * dz,
                  x.den * dh)

\* the DataArray da of the interpolated values along the direction
InterfaceAlong ==
    LET axis == Coordinate(direction) IN
    [dims |-> <<direction>>, shape |-> <<Len(axis)>>,
     cells |-> [idx \in Indices(<<Len(axis)>>) |-> Interp(axis[idx[1] + 1])]]

\* da.expand_dims({missing_dim: size}): the new dimension comes first and
\* the values repeat along it. The result of the da.transpose("x", "y")
\* that follows is dropped
ExpandDims(da, missing_dim, size) ==
    [dims |-> <<missing_dim>> \o da.dims, shape |-> <<size>> \o da.shape,
     cells |-> [idx \in Indices(<<size>> \o da.shape) |-> da.cells[Tail(idx)]]]

\* coordinates[direction] of a direction the coordinates do not have
interface_from_vertices_keyerror ==
    /\ pc = "interface_from_vertices"
    /\ direction \notin Range(CoordinateDims)
    /\ error' = Raise("KeyError", -1)
    /\ pc' = "failed"
    /\ UNCHANGED <<held, callVars, asmVars, diskVars, argVars, step, step_index,
                   n_rank, steps, times, data, result, checked, opened>>

interface_from_vertices_raise ==
    /\ pc = "interface_from_vertices"
    /\ direction \in Range(CoordinateDims)
    /\ CheckBoundaryVerticesRaises(FracMin(Coordinate(direction)),
                                   FracMax(Coordinate(direction)))
    /\ error' = Raise("ValueError", -1)
    /\ pc' = "failed"
    /\ UNCHANGED <<held, callVars, asmVars, diskVars, argVars, step, step_index,
                   n_rank, steps, times, data, result, checked, opened>>

\* 3D coordinates and a direction other than "x": the branch of "y" compares
\* missing_dim == "x" and assigns nothing, so that the name missing_dim is
\* read before it is bound
interface_from_vertices_unbound ==
    /\ pc = "interface_from_vertices"
    /\ direction \in Range(CoordinateDims)
    /\ ~CheckBoundaryVerticesRaises(FracMin(Coordinate(direction)),
                                    FracMax(Coordinate(direction)))
    /\ Len(CoordinateDims) = 3
    /\ direction # "x"
    /\ error' = Raise("UnboundLocalError", -1)
    /\ pc' = "failed"
    /\ UNCHANGED <<held, callVars, asmVars, diskVars, argVars, step, step_index,
                   n_rank, steps, times, data, result, checked, opened>>

interface_from_vertices_return ==
    /\ pc = "interface_from_vertices"
    /\ direction \in Range(CoordinateDims)
    /\ ~CheckBoundaryVerticesRaises(FracMin(Coordinate(direction)),
                                    FracMax(Coordinate(direction)))
    /\ Len(CoordinateDims) = 3 => direction = "x"
    /\ result' = IF Len(CoordinateDims) = 3
                 THEN ExpandDims(InterfaceAlong, "y", Len(Coordinate("y")))
                 ELSE InterfaceAlong
    /\ pc' = "returned"
    /\ UNCHANGED <<held, callVars, asmVars, diskVars, argVars, step, step_index,
                   n_rank, steps, times, data, checked, opened, error>>

interface_from_vertices ==
    \/ interface_from_vertices_keyerror
    \/ interface_from_vertices_raise
    \/ interface_from_vertices_unbound
    \/ interface_from_vertices_return

\* the regions of the coordinates drawn for interface_from_vertices
VertexRegionsDrawn ==
    {<<0, x_max, -1, 0>> : x_max \in 1 .. 2}
    \cup {<<0, x_max, 0, y_max, -1, 0>> : x_max \in 1 .. 2, y_max \in 1 .. 2}

\* the lists of two or three vertices drawn: the horizontal positions
\* increase, the depths are -1 or 0
VerticesDrawn ==
    {v \in UNION {[1 .. n -> (0 .. 2) \X (-1 .. 0)] : n \in 2 .. 3} :
        \A k \in 1 .. Len(v) - 1 : v[k][1] < v[k + 1][1]}

InitVertices ==
    /\ entry = "interface_from_vertices"
    /\ variant = "mandyoc"
    /\ region \in VertexRegionsDrawn
    /\ shape \in [1 .. Len(region) \div 2 -> 1 .. MaxN]
    /\ vertices \in VerticesDrawn
    /\ direction \in {"x", "y"}
    /\ velocity = NoVelocity
    /\ interfaces = NoInterfaces
    /\ layers_parameters = NoLayers
    /\ pc = "interface_from_vertices"
    /\ params = Params("ok", <<>>, NoRegion)
    /\ datasets = <<>>
    /\ todo = <<>>
    /\ data_vars = <<>>
    /\ parameters = NoParameters
    /\ coordinates = GridCoordinates(region, shape)
    /\ markers = {}
    /\ layout = GoodLayout
    /\ fieldFiles = NoFieldFiles
    /\ tiny = NoTiny
    /\ rankFiles = NoRankFiles
    /\ rowSeed = 0
    /\ rowFault = NoRowFault
    /\ print_step = 0
    /\ max_steps = 0
    /\ quantity = "none"
    /\ temperatures = NoArray
    /\ step = 0
    /\ step_index = 1
    /\ n_rank = NoRank
    /\ steps = <<>>
    /\ times = <<>>
    /\ data = <<>>
    /\ result = NoResult
    /\ checked = <<>>
    /\ opened = <<>>
    /\ held = <<>>
    /\ error = NoError

NextCoordinates == grid_coordinates \/ interface_from_vertices

InitGridCalls == InitCoordinates \/ InitVertices

SpecCoordinates == InitGridCalls /\ [][NextCoordinates]_vars


(***************************************************************************)
(* Claims on grid_coordinates.                                             *)
(***************************************************************************)
\* the minimum of an axis of the region exceeds its maximum
MinAboveMax == \E a \in 1 .. Len(region) \div 2 : region[2 * a - 1] > region[2 * a]

\* C24: for a region of 4 (2D) or 6 (3D) values, grid_coordinates raises
\* ValueError whenever the minimum of an axis exceeds its maximum (x, z and,
\* for 3D regions, y), and returns no coordinates then.
C24_RegionChecked ==
    (/\ entry = "grid_coordinates"
     /\ Len(region) \in {4, 6}
     /\ MinAboveMax
     /\ pc \in {"returned", "failed"}) =>
        /\ pc = "failed"
        /\ error.kind = "ValueError"
        /\ coordinates = NoCoordinates


(***************************************************************************)
(* Claims on interface_from_vertices.                                      *)
(***************************************************************************)
\* the extreme horizontal values of the vertices are the boundaries of the
\* coordinates along the direction
BoundariesMatch ==
    /\ FracEq(FracMin(Coordinate(direction)), Frac(First(Range(VerticesX)), 1))
    /\ FracEq(FracMax(Coordinate(direction)), Frac(Last(Range(VerticesX)), 1))

\* the array is defined over x and y and does not vary along the dimension
\* that is not the direction
ConstantAcross(da) ==
    /\ Range(da.dims) = {"x", "y"}
    /\ \A i \in DOMAIN da.cells : \A j \in DOMAIN da.cells :
          (\A a \in 1 .. Len(da.dims) : da.dims[a] = direction => i[a] = j[a])
             => da.cells[i] = da.cells[j]

\* C25: with 3D coordinates and a direction "x" or "y", interface_from_vertices
\* returns an interface over both horizontal axes x and y that is constant
\* along the axis that is not the direction; if the extreme horizontal values
\* of the vertices do not match the boundaries of the coordinates along the
\* direction, ValueError is raised instead.
C25_BothDirections ==
    (/\ entry = "interface_from_vertices"
     /\ Len(coordinates) = 3
     /\ direction \in {"x", "y"}
     /\ pc \in {"returned", "failed"}) =>
        IF BoundariesMatch
        THEN pc = "returned" /\ ConstantAcross(result)
        ELSE pc = "failed" /\ error.kind = "ValueError"


(***************************************************************************)
(* read_swarm(path, rank) of swarms.py. data holds the rows appended to    *)
(* x, y, z and cc0 so far, result is list_frame, n_rank is the variable    *)
(* rank, which the inner loop `for rank in range(rank)` binds anew.        *)
(***************************************************************************)
\* row i of the file step_<s>-rank<r>.txt: x1, y1, z1, c0, c1, c2, c3, c4.
\* x1 tells the particles of all files apart; c0 is a multiple of ten on
\* some rows
ParticleRow(s, r, i) ==
    <<Float(100 * s + 10 * r + i, 0), Float(r, 0), Float(i, 0),
      Float(IF (r + i) % 2 = 0 THEN 10 * i ELSE 10 * i + 5, 0),
      Float(1, 0), Float(2, 0), Float(3, 0), Float(4, 0)>>

\* np.loadtxt of the file of step s and rank r
ParticleLines(s, r) == [i \in 1 .. SwarmRowCount(s, r) |-> ParticleRow(s, r, i)]

\* the rows of the files of ranks 0 .. n - 1 of step s, in that order
RECURSIVE ParticlesOfRanks(_, _)
ParticlesOfRanks(s, n) ==
    IF n <= 0 THEN <<>> ELSE ParticlesOfRanks(s, n - 1) \o UseCols(ParticleLines(s, n - 1))

\* cc0 % 10 == 0
Kept(row) == row.cc0.m % Pow10(1 - row.cc0.e) = 0

\* pd.DataFrame of x[cc0 % 10 == 0], y[...], z[...]
Frame(rows) ==
    LET kept == SelectSeq(rows, Kept)
    IN  [i \in 1 .. Len(kept) |-> [x |-> kept[i].x, y |-> kept[i].y, z |-> kept[i].z]]

\* the ranks below n_rank whose file of the step is not in the directory
MissingRanks == {r \in 0 .. n_rank - 1 : r \notin rankFiles[step].ranks}

\* parameters["print_step"] and parameters["stepMAX"]
read_swarm_locals ==
    /\ pc = "swarm_locals"
    /\ {"print_step", "stepMAX"} \subseteq ParameterKeys
    /\ print_step' = parameters["print_step"]
    /\ max_steps' = parameters["stepMAX"]
    /\ pc' = "swarm_loop"
    /\ UNCHANGED <<held, callVars, asmVars, diskVars, shape, quantity, temperatures,
                   step, step_index, n_rank, steps, times, data, result, checked, opened,
                   error>>

read_swarm_locals_raise ==
    /\ pc = "swarm_locals"
    /\ ~({"print_step", "stepMAX"} \subseteq ParameterKeys)
    /\ error' = Raise("KeyError", -1)
    /\ pc' = "failed"
    /\ UNCHANGED <<held, callVars, asmVars, diskVars, argVars, step, step_index,
                   n_rank, steps, times, data, result, checked, opened>>

\* one turn of the loop over the steps: the files of range(rank) are read
\* and appended to what was read before, rank is left at the last value of
\* the inner loop, and the frame made last is appended
read_swarm_step ==
    /\ pc = "swarm_loop"
    /\ step < max_steps + print_step
    /\ MissingRanks = {}
    /\ n_rank > 0 \/ result # <<>>
    /\ opened' = opened \o [r \in 1 .. n_rank |-> RankFile(SWARM_BASENAME, step, r - 1)]
    /\ data' = data \o ParticlesOfRanks(step, n_rank)
    /\ result' = Append(result, IF n_rank > 0 THEN Frame(data') ELSE result[Len(result)])
    /\ n_rank' = IF n_rank > 0 THEN n_rank - 1 ELSE n_rank
    /\ step' = step + print_step
    /\ UNCHANGED <<held, callVars, asmVars, diskVars, argVars, pc, step_index, steps,
                   times, checked, error>>

\* np.loadtxt of a file that is not there
read_swarm_raise ==
    /\ pc = "swarm_loop"
    /\ step < max_steps + print_step
    /\ MissingRanks # {}
    /\ opened' = opened \o [r \in 1 .. First(MissingRanks) + 1 |->
                               RankFile(SWARM_BASENAME, step, r - 1)]
    /\ error' = Raise("OSError", step)
    /\ pc' = "failed"
    /\ UNCHANGED <<held, callVars, asmVars, diskVars, argVars, step, step_index,
                   n_rank, steps, times, data, result, checked>>

\* rank = 0 at the first step: the inner loop binds no frame
read_swarm_unbound ==
    /\ pc = "swarm_loop"
    /\ step < max_steps + print_step
    /\ n_rank = 0
    /\ result = <<>>
    /\ error' = Raise("UnboundLocalError", step)
    /\ pc' = "failed"
    /\ UNCHANGED <<held, callVars, asmVars, diskVars, argVars, step, step_index,
                   n_rank, steps, times, data, result, checked, opened>>

read_swarm_return ==
    /\ pc = "swarm_loop"
    /\ step >= max_steps + print_step
    /\ pc' = "returned"
    /\ UNCHANGED <<held, callVars, asmVars, diskVars, argVars, step, step_index,
                   n_rank, steps, times, data, result, checked, opened, error>>

read_swarm ==
    \/ _read_parameters
    \/ _read_parameters_raise
    \/ read_swarm_locals
    \/ read_swarm_locals_raise
    \/ read_swarm_step
    \/ read_swarm_raise
    \/ read_swarm_unbound
    \/ read_swarm_return

\* the parameters files drawn for read_swarm: print_step and stepMAX, or
\* print_step alone
SwarmParamsDrawn ==
    {Params("ok", [SoundLines(<<2, 2, 2>>) EXCEPT ![4] = KeyLine("print_step", IntTok(p)),
                                                  ![5] = KeyLine("stepMAX", IntTok(m))],
            NoRegion) : p \in 1 .. MaxPrintStep, m \in 0 .. MaxStepMax}
    \cup {Params("ok", SubSeq(SoundLines(<<2, 2, 2>>), 1, 4), NoRegion),
          Params("absent", <<>>, NoRegion)}

\* the directories drawn: the files of ranks 0 .. MaxRanks - 1 of every
\* step, or those but one
SwarmDirsDrawn ==
    {[s \in MarkerSteps |-> [ranks |-> Ranks, extra |-> 0]]}
    \cup {[s \in MarkerSteps |-> [ranks |-> IF s = lost.s THEN Ranks \ {lost.r} ELSE Ranks,
                                  extra |-> 0]] :
             lost \in [s : MarkerSteps, r : Ranks]}

InitSwarm ==
    /\ NoOtherArgs
    /\ entry = "read_swarm"
    /\ variant = "md3d"
    /\ params \in SwarmParamsDrawn
    /\ rankFiles \in SwarmDirsDrawn
    /\ rowSeed \in 0 .. MaxRows - 1
    /\ n_rank \in 0 .. MaxRanks
    /\ pc = "parameters"
    /\ datasets = <<>>
    /\ todo = <<>>
    /\ data_vars = <<>>
    /\ parameters = NoParameters
    /\ coordinates = NoCoordinates
    /\ markers = {}
    /\ layout = GoodLayout
    /\ fieldFiles = NoFieldFiles
    /\ tiny = NoTiny
    /\ rowFault = NoRowFault
    /\ shape = <<>>
    /\ print_step = 0
    /\ max_steps = 0
    /\ quantity = "none"
    /\ temperatures = NoArray
    /\ step = 0
    /\ step_index = 1
    /\ steps = <<>>
    /\ times = <<>>
    /\ data = <<>>
    /\ result = NoResult
    /\ checked = <<>>
    /\ opened = <<>>
    /\ held = <<>>
    /\ error = NoError

NextSwarm == read_swarm

SpecSwarm == InitSwarm /\ [][NextSwarm]_vars


(***************************************************************************)
(* Claims on read_swarm.                                                   *)
(***************************************************************************)
\* the argument rank of the call: the first turn of the loop over the steps
\* asks for the files of range(rank)
RankOfCall ==
    Cardinality({r \in 0 .. MaxRanks : RankFile(SWARM_BASENAME, 0, r) \in Range(opened)})

\* C26: read_swarm returns one frame per candidate step, and the frame of
\* step s holds exactly the particles with cc0 % 10 == 0 of the files of
\* ranks 0 .. rank - 1 of that step: all rank files at every step, and no
\* particle read for an earlier step.
C26_FramePerStep ==
    (entry = "read_swarm" /\ pc = "returned") =>
        /\ Len(result) = Cardinality(Candidates)
        /\ \A t \in 1 .. Len(result) :
              result[t] = Frame(ParticlesOfRanks((t - 1) * print_step, RankOfCall))


(***************************************************************************)
(* Claims on the step index of the assemblers.                             *)
(***************************************************************************)
\* the markers were read in one pass: the marker of step 0 was opened and no
\* marker was opened twice
IndexOnce ==
    /\ MarkerFile(0) \in Range(opened)
    /\ \A i \in 1 .. Len(opened), j \in 1 .. Len(opened) :
          (opened[i] = opened[j] /\ opened[i].kind = TIMES_BASENAME) => i = j

\* slice t of the array of the variable var holds what the files of
\* steps[t] hold: the c-th of d values per grid point for a scalar (d = 1)
\* or a velocity component, the rows of the rank files for the viscosity
SliceOfStep(var, t) ==
    IF var.name = "viscosity"
    THEN \A cell \in Indices(shape_centers) :
            LET rows == RowsOfRanks(steps[t], n_rank)
                naming == {q \in 1 .. Len(rows) : Addressed(rows[q]) = cell}
                value == var.array.cells[<<t - 1>> \o cell]
            IN  IF naming = {} THEN value = Zero
                ELSE value = RowValue(rows[Last(naming)])
    ELSE LET d == IF var.name \in {"velocity_x", "velocity_y", "velocity_z"}
                  THEN Len(shape) ELSE 1
             c == IF var.name = "velocity_x" \/ d = 1 THEN 1
                  ELSE IF var.name = "velocity_z" THEN Len(shape) ELSE 2
         IN  \A idx \in Indices(shape) :
                var.array.cells[<<t - 1>> \o idx] = Stored(ValueAt(t, d * ColumnMajor(idx) + c))

\* C27: an assembler resolves the step index once per call, and in the
\* dataset it returns every field (each scalar, each velocity component,
\* the viscosity) has a leading time axis of as many slices as there are
\* resolved steps, slice t being that of steps[t]; on a sound directory the
\* call returns such a dataset.
C27_SharedIndex ==
    entry \in Assemblers =>
        /\ (SoundDirectory /\ Over) => (pc = "returned" /\ IndexOnce)
        /\ pc = "returned" =>
              /\ result.step = steps
              /\ Len(result.time) = Len(steps)
              /\ \A v \in 1 .. Len(result.data_vars) :
                    /\ result.data_vars[v].array.shape[1] = Len(steps)
                    /\ \A t \in 1 .. Len(steps) : SliceOfStep(result.data_vars[v], t)


(***************************************************************************)
(* Claims on the cells that two rows of a step name.                       *)
(***************************************************************************)
\* one file of one step holds a second row for the first center, and the
\* directory has every rank file of every step of the index, none of them
\* without a row of its own, and no other entry
TwiceOnly ==
    /\ rowFault.kind = "twice"
    /\ \A i \in 1 .. Len(steps) :
          rankFiles[steps[i]].ranks = Ranks /\ rankFiles[steps[i]].extra = 0
    /\ \A r \in Ranks : Owned(r, shape_centers) # {}

\* the second row is processed after the row of the center itself: it is
\* in the file of a higher rank, or at the end of the file of the same rank
TwiceIsLast == rowFault.rank > 0 \/ ~rowFault.head

\* C28: when two rows of a step name the same cell, in one rank file or in
\* the files of two ranks, _read_viscosity raises nothing and stores the
\* value of the row processed last, the rank files being processed in
\* ascending order of rank; every other cell, of this step and of the other
\* steps, holds the value of its own row.
C28_LastRowWins ==
    (entry = "_read_viscosity" /\ TwiceOnly /\ Over) =>
        /\ pc = "returned"
        /\ \A t \in 1 .. Len(steps), cell \in Indices(shape_centers) :
              result[1].cells[<<t - 1>> \o cell] =
                 IF /\ steps[t] = rowFault.step
                    /\ CenterPlace(cell, shape_centers) = 0
                    /\ TwiceIsLast
                 THEN FaultViscosity
                 ELSE ViscosityAt(steps[t], CenterPlace(cell, shape_centers))

\* C28 witness: an array of two steps has been returned whose first step
\* has the second row in the file of another rank than the row of the
\* center
C28_Witness ==
    /\ entry = "_read_viscosity"
    /\ TwiceOnly
    /\ pc = "returned"
    /\ Len(steps) = 2
    /\ rowFault.step = steps[1]
    /\ rowFault.rank > 0
    /\ result[1].cells[<<0>> \o [a \in 1 .. Len(shape) |-> 0]] = FaultViscosity
    /\ result[1].cells[<<1>> \o [a \in 1 .. Len(shape) |-> 0]] = ViscosityAt(steps[2], 0)


(***************************************************************************)
(* Claims on the names of the rank files.                                  *)
(***************************************************************************)
RankReaders == {"_read_viscosity", "read_md3d_swarm"}

\* the entries of the directory that hold the pattern of step s are the
\* files of the ranks 0 .. n - 1 for some n, and nothing else
ExactlyRanks(s) ==
    /\ rankFiles[s].extra = 0
    /\ rankFiles[s].ranks = 0 .. (Cardinality(rankFiles[s].ranks) - 1)

\* the rank files of step s that were asked for
FilesReadOf(s) ==
    {f \in Range(opened) :
        f.step = s /\ f.kind \in {VISCOSITY_BASENAME, SWARM_BASENAME}}

\* C29: a rank reader reads, for a step, exactly the files named after the
\* ranks 0 .. n_rank - 1, n_rank being the number of entries of the
\* directory that hold the pattern of the step; when the entries that match
\* a step of the index are not exactly the files of the ranks
\* 0 .. n_rank - 1 (a rank is missing in between, or another entry holds the
\* pattern), the read fails and returns nothing.
C29_RanksExact ==
    entry \in RankReaders =>
        /\ pc = "returned" =>
              \A i \in 1 .. Len(steps) :
                 /\ n_rank = ListCount(steps[i])
                 /\ FilesReadOf(steps[i]) =
                       {RankFile(IF entry = "_read_viscosity" THEN VISCOSITY_BASENAME
                                 ELSE SWARM_BASENAME, steps[i], r) : r \in 0 .. n_rank - 1}
                 /\ FilesReadOf(steps[i]) =
                       {RankFile(IF entry = "_read_viscosity" THEN VISCOSITY_BASENAME
                                 ELSE SWARM_BASENAME, steps[i], r) : r \in rankFiles[steps[i]].ranks}
        /\ (Over /\ \E i \in 1 .. Len(steps) : ~ExactlyRanks(steps[i])) =>
              /\ pc = "failed"
              /\ result = NoResult

\* C29 witness: two steps of two rank files each have been read and returned
C29_Witness ==
    /\ entry \in RankReaders
    /\ pc = "returned"
    /\ Len(steps) = 2
    /\ n_rank = 2
    /\ \A i \in 1 .. 2 : Cardinality(FilesReadOf(steps[i])) = 2

====
